---- MODULE Spec2Model ----
(***************************************************************************)
(* A model of the observability-assistant-router: the routing decision     *)
(* engine (_route_with_sessions with the session store) and the streaming  *)
(* pipeline (chat.event_generator driving AgentProxy.forward_request over  *)
(* the AG-UI client and the A2A translator).                               *)
(*                                                                         *)
(* The specifications of the module:                                       *)
(*   SpecChat   one chat request from the routed agent to the end of its   *)
(*              SSE stream (retry, give-up, fallback to the default agent) *)
(*   SpecChatFair  SpecChat with the generator and its upstream calls      *)
(*              running to their end                                       *)
(*   SpecRoute  a sequence of routing decisions over the session store     *)
(*   SpecTranslate  one run of the A2A translator over a stream of frames   *)
(*   SpecReload  hot reloads of the config next to a request being routed  *)
(*   SpecWatch   file events debounced by the watcher into reload calls     *)
(*   SpecWatchFair  SpecWatch with its threads scheduled fairly             *)
(*   SpecStop    the watcher's threads while ConfigWatcher.stop() is called *)
(*   SpecStrip   one request copied by _strip_mentions_from_request          *)
(*   SpecBackoff the sleeps of the proxy's retry loop under a RetryConfig    *)
(*   SpecMatch   one call of SemanticRouter.match over an index of examples  *)
(*   SpecBuffer  one run of StreamBuffer.process_stream over a stream        *)
(*   SpecSessions requests routed over the session store between reloads    *)
(*               that change the session policy and the agents             *)
(*   SpecEndpoint one call of chat from the parsed request to the start of   *)
(*               its stream                                                  *)
(***************************************************************************)
EXTENDS Integers, Sequences, FiniteSets, TLC

VARIABLES
    agents_config,      \* app.state.agents_config: the active catalog
    max_attempts,       \* RetryConfig.max_attempts of the proxy
    agent,              \* id of the agent chosen by routing for the request
    pc,                 \* position of chat.event_generator
    primary_failed,     \* event_generator local
    failure_context,    \* event_generator local: "none", "proxy", "unexpected"
    out,                \* the client-visible SSE stream, in order
    fwd,                \* agent ids forward_request was invoked with, in order
    fr,                 \* the frame of the running forward_request call
    up,                 \* the upstream attempt in progress
    raised,             \* AgentProxyErrors raised so far, in order
    session_store,      \* app.state.session_store: NoStore or [timeout_minutes, sessions]
    now,                \* datetime.now(), in minutes
    pending,            \* the chat request received and not yet routed
    routed,             \* the last completed _route_with_sessions call: its
                        \* arguments, the store and clock it started from,
                        \* and what it returned
    tr,                 \* a running A2ATranslator._translate_stream: its
                        \* locals, the frames read and the events yielded
    config_file,        \* the agents config file on disk: a catalog or
                        \* content load_agents_config rejects
    semantic_router,    \* app.state.semantic_router: the shared index object
    reloader,           \* app.state.config_reloader: _reload_lock, _reload_count
    reloading,          \* per thread, its call of ConfigReloader._on_config_change
    reader,             \* a chat request on the event loop: the catalog it
                        \* took from app.state and what match() read
    wall_clock,         \* time.time(), in ticks
    handler,            \* ConfigFileHandler: _last_trigger, _pending_reload
                        \* and the holder of its _lock
    observer,           \* the watchdog observer thread and the file events
                        \* it has not dispatched yet
    timers,             \* the threading.Timer threads started and not ended
    handled,            \* the handler's entries so far, in order: which
                        \* thread entered and what it did
    watcher,            \* ConfigWatcher: how far a call of stop() has come
    copying,            \* a call of chat: where it is, the heap of request
                        \* objects, the request parsed, the user message
                        \* extracted, the request forwarded, the HTTP status
                        \* if it has raised, the session store it found
    retrying,           \* a retry loop of the proxy with its RetryConfig and
                        \* the sleeps it has made
    matching,           \* a call of SemanticRouter.match: the index, the
                        \* similarities of the message and the matches
    stream_buffer       \* a StreamBuffer wrapped around an event stream: the
                        \* events of the source, how many it has read, what
                        \* it has yielded and what it has buffered

chatVars  == <<max_attempts, agent, pc, primary_failed, failure_context, out,
               fwd, fr, up, raised>>
routeVars == <<session_store, now, pending, routed>>
translatorVars == <<tr>>
reloadVars == <<config_file, semantic_router, reloader, reloading, reader>>
watchVars == <<wall_clock, handler, observer, timers, handled, watcher>>
stripVars == <<copying>>
backoffVars == <<retrying>>
matchVars == <<matching>>
bufferVars == <<stream_buffer>>
vars      == <<agents_config, max_attempts, agent, pc, primary_failed,
               failure_context, out, fwd, fr, up, raised, session_store, now,
               pending, routed, tr, config_file, semantic_router, reloader,
               reloading, reader, wall_clock, handler, observer, timers,
               handled, watcher, copying, retrying, matching, stream_buffer>>

(***************************************************************************)
(* Bounds of the model                                                     *)
(***************************************************************************)
\* largest RetryConfig.max_attempts explored
MaxAttemptsBound == 3
\* largest number of A2A frames one upstream stream delivers
MaxFrames == 3
\* last minute of the clock
MaxTime == 3
\* longest text one A2A frame carries
MaxText == 2
\* most successful reloads of one run
MaxReloads == 2
\* debounce_seconds of the watcher, in ticks
Debounce == 2
\* last tick of the watcher's clock
MaxClock == 5
\* most file events of one run
MaxEvents == 3
\* Messages of a chat request
MaxMessages == 2
\* largest RetryConfig.max_attempts of the backoff loop, and the largest
\* base_delay_ms and max_delay_ms explored
MaxRetryAttempts == 4
MaxBaseDelay == 3
MaxDelayCap == 5
\* Examples of one agent in the index
MaxExamples == 2
\* Events of a stream wrapped by the stream buffer, and the largest
\* max_content_size explored
MaxBuffered == 3
MaxContentSize == 2

(***************************************************************************)
(* Configuration: AgentConfig, SessionConfig, AgentsConfig                 *)
(***************************************************************************)
None == "none"

\* Similarity scores and thresholds are tenths: 0 .. 10 stands for 0.0 .. 1.0.
\* Texts are sequences of characters; a handle is the text after the "@".

NoRouting == [priority |-> 0, threshold |-> 0, examples |-> FALSE]

\* "no agent": the None an Optional[AgentConfig] holds
NoAgent == [id |-> None, name |-> None, handles |-> <<>>, protocol |-> None,
            routing |-> NoRouting]

General(protocol, routing) ==
    [id |-> "general", name |-> "General", handles |-> << <<"a">> >>,
     protocol |-> protocol, routing |-> routing]

Metrics ==
    [id |-> "metrics", name |-> "Metrics", handles |-> << <<"m">>, <<"p">> >>,
     protocol |-> "ag-ui",
     routing |-> [priority |-> 1, threshold |-> 8, examples |-> TRUE]]

Troubleshooting ==
    [id |-> "troubleshooting", name |-> "Troubleshooting",
     handles |-> << <<"d">>, <<"p">> >>, protocol |-> "a2a",
     routing |-> [priority |-> 2, threshold |-> 5, examples |-> TRUE]]

CatalogA ==
    [session |-> [sticky_enabled |-> TRUE, timeout_minutes |-> 1,
                  topic_drift_threshold |-> 5],
     default_agent |-> "general",
     agents |-> <<General("a2a", NoRouting), Metrics, Troubleshooting>>]

CatalogB ==
    [session |-> [sticky_enabled |-> TRUE, timeout_minutes |-> 2,
                  topic_drift_threshold |-> 9],
     default_agent |-> "general",
     agents |-> <<Troubleshooting, Metrics,
                  General("ag-ui", [priority |-> 2, threshold |-> 5,
                                    examples |-> TRUE])>>]

Catalogs == {CatalogA, CatalogB}

AgentIds == {"general", "metrics", "troubleshooting"}

\* AgentsConfig.get_agent_by_id: the first agent with that id, or None
RECURSIVE FirstWithId(_, _, _)
FirstWithId(agents, agent_id, i) ==
    IF i > Len(agents) THEN NoAgent
    ELSE IF agents[i].id = agent_id THEN agents[i]
    ELSE FirstWithId(agents, agent_id, i + 1)

get_agent_by_id(config, agent_id) == FirstWithId(config.agents, agent_id, 1)

\* AgentsConfig.get_default_agent
get_default_agent(config) == get_agent_by_id(config, config.default_agent)

\* AgentsConfig.is_default_agent
is_default_agent(config, a) == a.id = config.default_agent

(***************************************************************************)
(* Sessions: SessionState and SessionStore                                 *)
(***************************************************************************)
Threads == {"t1", "t2"}

\* "no session": what dict.get returns for a thread without an entry
NoSession == [agent_id |-> None, agent_handle |-> <<>>, created_at |-> 0,
              last_activity |-> 0]

\* SessionState(thread_id, agent_id, agent_handle): both timestamps default
\* to datetime.now()
SessionState(agent_id, agent_handle, clock) ==
    [agent_id |-> agent_id, agent_handle |-> agent_handle,
     created_at |-> clock, last_activity |-> clock]

\* An expiry test whose strict comparison has become non-strict
is_expired_AtBoundary(session, timeout_minutes, clock) ==
    clock >= session.last_activity + timeout_minutes

\* SessionState.is_expired
is_expired(session, timeout_minutes, clock) ==
    clock > session.last_activity + timeout_minutes

\* app.state.session_store is None when settings.session_enabled is false
NoStore == [enabled |-> FALSE, timeout_minutes |-> 0,
            sessions |-> [t \in Threads |-> NoSession]]

\* SessionStore(timeout_minutes)
EmptyStore(timeout_minutes) ==
    [enabled |-> TRUE, timeout_minutes |-> timeout_minutes,
     sessions |-> [t \in Threads |-> NoSession]]

\* SessionStore.get: the session returned (NoSession for None) and the store
\* afterwards (an expired entry is deleted)
store_get(store, thread_id, clock) ==
    LET session == store.sessions[thread_id]
    IN IF session = NoSession
       THEN [session |-> NoSession, store |-> store]
       ELSE IF is_expired(session, store.timeout_minutes, clock)
       THEN [session |-> NoSession,
             store |-> [store EXCEPT !.sessions[thread_id] = NoSession]]
       ELSE [session |-> session, store |-> store]

\* SessionStore.set: create or replace
store_set(store, thread_id, agent_id, agent_handle, clock) ==
    [store EXCEPT !.sessions[thread_id] =
                      SessionState(agent_id, agent_handle, clock)]

\* A touch that reports an expired session but leaves its entry in place
store_touch_KeepsExpired(store, thread_id, clock) ==
    LET session == store.sessions[thread_id]
    IN IF session = NoSession
          \/ clock > session.last_activity + store.timeout_minutes
       THEN [ok |-> FALSE, store |-> store]
       ELSE [ok |-> TRUE,
             store |-> [store EXCEPT !.sessions[thread_id].last_activity = clock]]

\* SessionStore.touch: the result and the store afterwards
store_touch(store, thread_id, clock) ==
    LET session == store.sessions[thread_id]
    IN IF session = NoSession
       THEN [ok |-> FALSE, store |-> store]
       ELSE IF is_expired(session, store.timeout_minutes, clock)
       THEN [ok |-> FALSE,
             store |-> [store EXCEPT !.sessions[thread_id] = NoSession]]
       ELSE [ok |-> TRUE,
             store |-> [store EXCEPT !.sessions[thread_id].last_activity = clock]]

\* SessionStore.delete
store_delete(store, thread_id) ==
    [store EXCEPT !.sessions[thread_id] = NoSession]


(***************************************************************************)
(* AG-UI events                                                            *)
(***************************************************************************)
\* src names the component that built the event, of names the agent whose
\* forward produced it (None for the pipeline's own events)
Ev(type, src, of) ==
    [type |-> type, src |-> src, of |-> of, displayName |-> None]

\* inject_display_name: RUN_STARTED events get displayName, others pass
inject_display_name(event, display_name) ==
    IF event.type = "RUN_STARTED"
    THEN [event EXCEPT !.displayName = display_name]
    ELSE event

\* The SSE stream a healthy AG-UI agent answers with
Reply(a) ==
    <<Ev("RUN_STARTED", "upstream", a.id),
      Ev("TEXT_MESSAGE_START", "upstream", a.id),
      Ev("TEXT_MESSAGE_CONTENT", "upstream", a.id),
      Ev("TEXT_MESSAGE_END", "upstream", a.id),
      Ev("RUN_FINISHED", "upstream", a.id)>>

\* _yield_fallback_context: the three notice events
FallbackContext ==
    <<Ev("TEXT_MESSAGE_START", "notice", None),
      Ev("TEXT_MESSAGE_CONTENT", "notice", None),
      Ev("TEXT_MESSAGE_END", "notice", None)>>

(***************************************************************************)
(* Upstream errors and the retry policy                                    *)
(***************************************************************************)
NoStatus == -1

\* What is_retryable_error reads of an exception: its status_code attribute
\* and which of the searched substrings str(error).lower() contains
Terms == {"timeout", "timed out", "connection", "connect", "unavailable", "network"}
Codes == {"500", "502", "503", "504"}

\* AGUIClientError for a response with status >= 400: "Agent returned HTTP
\* <status>: <body>"
Http503 == [status_code |-> 503, text |-> {"503", "unavailable"}]
Http400 == [status_code |-> 400, text |-> {}]
\* The same for a 408 whose body is its reason phrase: "Agent returned HTTP
\* 408: Request Timeout"
Http408 == [status_code |-> 408, text |-> {"timeout"}]
\* AGUIClientError("Request timed out: ...") from httpx.TimeoutException
TimedOut == [status_code |-> NoStatus, text |-> {"timed out"}]
\* AGUIClientError("Request failed: ...") from an httpx.RequestError whose
\* message has none of the searched terms
RequestFailed == [status_code |-> NoStatus, text |-> {}]
NoError == [status_code |-> NoStatus, text |-> {"<no error>"}]

HttpErrors == {Http503, Http400, Http408}
TransportErrors == {TimedOut, RequestFailed}

\* is_retryable_error
is_retryable_error(error) ==
    IF error.text \cap Terms # {} THEN TRUE
    ELSE IF "429" \in error.text THEN TRUE
    ELSE IF error.text \cap Codes # {} THEN TRUE
    ELSE IF error.status_code # NoStatus
         THEN IF error.status_code = 429
                 \/ (500 <= error.status_code /\ error.status_code < 600)
              THEN TRUE
              ELSE FALSE
    ELSE FALSE

\* RetryConfig
RetryConfig(max, base_delay_ms, max_delay_ms) ==
    [max_attempts |-> max, base_delay_ms |-> base_delay_ms,
     max_delay_ms |-> max_delay_ms]

\* A backoff that is never capped
get_delay_ms_Uncapped(config, attempt) ==
    IF attempt <= 0 THEN 0
    ELSE config.base_delay_ms * (2 ^ (attempt - 1))

\* RetryConfig.get_delay_ms
get_delay_ms(config, attempt) ==
    IF attempt <= 0 THEN 0
    ELSE LET delay == config.base_delay_ms * (2 ^ (attempt - 1))
         IN IF delay <= config.max_delay_ms THEN delay
            ELSE config.max_delay_ms

\* RetryConfig.wait_before_retry: the sleeps so far with the one this call
\* makes, if it makes one
wait_before_retry(config, attempt, slept) ==
    LET delay_ms == get_delay_ms(config, attempt)
    IN IF delay_ms > 0
       THEN Append(slept, [attempt |-> attempt, ms |-> delay_ms])
       ELSE slept

\* No retry loop running
NoRetry == [config |-> RetryConfig(1, 0, 0), attempt |-> 0, state |-> "idle",
            slept |-> <<>>]

\* Numbers of events an AG-UI upstream may have delivered when its transport
\* fails: before any event, in mid-message, after the last event
FailPoints == {0, 2, 5}

(***************************************************************************)
(* AgentProxy.forward_request: one frame per call                          *)
(***************************************************************************)
\* state: "loop" at the head of the for loop, "streaming" inside
\* _forward_with_protocol, "break" after a non-retryable error, "idle" when no
\* call is running.  yielded counts the events the call has yielded, calls the
\* upstream requests it has made.
IdleFrame ==
    [agent |-> NoAgent, attempt |-> 0, attempts |-> 0, last_error |-> NoError,
     state |-> "idle", yielded |-> 0, calls |-> 0]

NewFrame(a) == [IdleFrame EXCEPT !.agent = a, !.state = "loop"]

\* sent: events (AG-UI) or frames (A2A) the upstream has delivered in this
\* attempt; yielded: events this attempt has yielded downstream;
\* message_started: the translator's local;
\* failed: the error the upstream attempt ended with, NoError if none
IdleUpstream ==
    [sent |-> 0, yielded |-> 0, message_started |-> FALSE, failed |-> NoError]

\* The client-visible stream grows by every event forward_request yields:
\* event_generator frames each one as {"event": type, "data": json}
Yield(f, events) == [f EXCEPT !.yielded = @ + Len(events)]

\* A loop that runs once too often: range(max_attempts + 1)
LoopContinues_OneMore(f) == f.state = "loop" /\ f.attempt <= max_attempts

\* for attempt in range(max_attempts): the loop goes on
LoopContinues(f) == f.state = "loop" /\ f.attempt < max_attempts

\* the for loop is over, by exhaustion or by break
LoopOver(f) ==
    \/ f.state = "break"
    \/ f.state = "loop" /\ f.attempt >= max_attempts

\* except (AGUIClientError, A2AClientError) as e: the frame after the handler
OnClientError(f, e) ==
    IF ~is_retryable_error(e)
    THEN [f EXCEPT !.last_error = e, !.state = "break"]
    ELSE [f EXCEPT !.last_error = e, !.state = "loop", !.attempt = @ + 1]

\* A give-up that raises without telling the stream
GiveUpEvents_Silent(f) == <<>>

\* The events forward_request yields when it gives up
GiveUpEvents(f) == <<Ev("RUN_ERROR", "proxy", f.agent.id)>>

\* The AgentProxyError forward_request raises when it gives up
ProxyError(f) ==
    [agent_id |-> f.agent.id, attempts |-> f.attempts,
     is_retryable |-> IF f.last_error # NoError
                      THEN is_retryable_error(f.last_error) ELSE FALSE]

\* A proxy that announces every attempt itself, whatever the protocol
AttemptPrologue_Always(a) ==
    <<[Ev("RUN_STARTED", "proxy", a.id) EXCEPT !.displayName = a.name]>>

\* The first events of an attempt, yielded before the upstream is read: the
\* translator yields RUN_STARTED (with displayName) for an A2A agent, the
\* AG-UI client yields nothing
AttemptPrologue(a) ==
    IF a.protocol = "a2a"
    THEN <<[Ev("RUN_STARTED", "translator", a.id) EXCEPT !.displayName = a.name]>>
    ELSE <<>>

InCall == pc \in {"primary", "fallback"}

\* One iteration of the retry loop starts: attempts = attempt + 1 and
\* _forward_with_protocol is entered
ForwardAttempt ==
    /\ InCall
    /\ LoopContinues(fr)
    /\ LET pro == AttemptPrologue(fr.agent)
       IN /\ fr' = Yield([fr EXCEPT !.attempts = fr.attempt + 1,
                                    !.state = "streaming",
                                    !.calls = @ + 1], pro)
          /\ up' = [IdleUpstream EXCEPT !.yielded = Len(pro)]
          /\ out' = out \o pro
    /\ UNCHANGED <<agents_config, max_attempts, agent, pc, primary_failed,
                   failure_context, fwd, raised, routeVars, translatorVars, reloadVars,
                   watchVars, stripVars, backoffVars, matchVars, bufferVars>>

\* AGUIClient.send_message parses one more SSE event; _forward_agui injects
\* the display name and forward_request yields it
AGUIEvent ==
    /\ InCall
    /\ fr.state = "streaming"
    /\ fr.agent.protocol = "ag-ui"
    /\ up.sent < Len(Reply(fr.agent))
    /\ LET event == inject_display_name(Reply(fr.agent)[up.sent + 1],
                                        fr.agent.name)
       IN /\ out' = Append(out, event)
          /\ fr' = Yield(fr, <<event>>)
          /\ up' = [up EXCEPT !.sent = @ + 1, !.yielded = @ + 1]
    /\ UNCHANGED <<agents_config, max_attempts, agent, pc, primary_failed,
                   failure_context, fwd, raised, routeVars, translatorVars, reloadVars,
                   watchVars, stripVars, backoffVars, matchVars, bufferVars>>

\* The upstream stream ends: forward_request returns, event_generator returns
StreamReturns(events) ==
    /\ out' = out \o events
    /\ fr' = Yield([fr EXCEPT !.state = "returned"], events)
    /\ pc' = "done"
    /\ UNCHANGED <<agents_config, max_attempts, agent, primary_failed,
                   failure_context, fwd, raised, routeVars, translatorVars, reloadVars,
                   watchVars, stripVars, backoffVars, matchVars, bufferVars>>

AGUIEnd ==
    /\ InCall
    /\ fr.state = "streaming"
    /\ fr.agent.protocol = "ag-ui"
    /\ up.sent = Len(Reply(fr.agent))
    /\ up' = up
    /\ StreamReturns(<<>>)

\* The response has status >= 400: send_message raises AGUIClientError with
\* the status code before any event
AGUIHttpError ==
    /\ InCall
    /\ fr.state = "streaming"
    /\ fr.agent.protocol = "ag-ui"
    /\ up.sent = 0
    /\ \E e \in HttpErrors :
         /\ fr' = OnClientError(fr, e)
         /\ up' = [up EXCEPT !.failed = e]
    /\ UNCHANGED <<agents_config, max_attempts, agent, pc, primary_failed,
                   failure_context, out, fwd, raised, routeVars, translatorVars, reloadVars,
                   watchVars, stripVars, backoffVars, matchVars, bufferVars>>

\* httpx.TimeoutException or httpx.RequestError while connecting or while
\* reading the stream: send_message raises AGUIClientError without a status
AGUITransportError ==
    /\ InCall
    /\ fr.state = "streaming"
    /\ fr.agent.protocol = "ag-ui"
    /\ up.sent \in FailPoints
    /\ \E e \in TransportErrors :
         /\ fr' = OnClientError(fr, e)
         /\ up' = [up EXCEPT !.failed = e]
    /\ UNCHANGED <<agents_config, max_attempts, agent, pc, primary_failed,
                   failure_context, out, fwd, raised, routeVars, translatorVars, reloadVars,
                   watchVars, stripVars, backoffVars, matchVars, bufferVars>>

\* One more A2A frame arrives; _translate_response turns a frame with new
\* text into TEXT_MESSAGE_START (once) and TEXT_MESSAGE_CONTENT, any other
\* frame into nothing
A2AFrameEvents(a, message_started, textual) ==
    IF ~textual THEN <<>>
    ELSE (IF message_started THEN <<>>
          ELSE <<Ev("TEXT_MESSAGE_START", "translator", a.id)>>)
         \o <<Ev("TEXT_MESSAGE_CONTENT", "translator", a.id)>>

A2AFrame ==
    /\ InCall
    /\ fr.state = "streaming"
    /\ fr.agent.protocol = "a2a"
    /\ up.sent < MaxFrames
    /\ \E textual \in BOOLEAN :
         LET events == A2AFrameEvents(fr.agent, up.message_started, textual)
         IN /\ out' = out \o events
            /\ fr' = Yield(fr, events)
            /\ up' = [up EXCEPT !.sent = @ + 1,
                                !.yielded = @ + Len(events),
                                !.message_started = @ \/ textual]
    /\ UNCHANGED <<agents_config, max_attempts, agent, pc, primary_failed,
                   failure_context, fwd, raised, routeVars, translatorVars, reloadVars,
                   watchVars, stripVars, backoffVars, matchVars, bufferVars>>

\* End of the A2A stream: _translate_stream closes the message if one is
\* open and yields RUN_FINISHED
A2AEndEvents(a, message_started) ==
    (IF message_started THEN <<Ev("TEXT_MESSAGE_END", "translator", a.id)>>
     ELSE <<>>)
    \o <<Ev("RUN_FINISHED", "translator", a.id)>>

A2AEnd ==
    /\ InCall
    /\ fr.state = "streaming"
    /\ fr.agent.protocol = "a2a"
    /\ up' = [up EXCEPT !.yielded =
                 @ + Len(A2AEndEvents(fr.agent, up.message_started))]
    /\ StreamReturns(A2AEndEvents(fr.agent, up.message_started))

\* The A2A stream raises (A2AClientError wraps every exception of the SDK
\* call): _translate_stream's except clause yields RUN_ERROR and the
\* generator ends normally, so forward_request sees no exception
A2AErrorEvents(a) == <<Ev("RUN_ERROR", "translator", a.id)>>

A2AError ==
    /\ InCall
    /\ fr.state = "streaming"
    /\ fr.agent.protocol = "a2a"
    /\ \E e \in TransportErrors :
         up' = [up EXCEPT !.failed = e,
                          !.yielded = @ + Len(A2AErrorEvents(fr.agent))]
    /\ StreamReturns(A2AErrorEvents(fr.agent))

\* inject_display_name rebuilds RUN_STARTED as RunStartedEvent(**data): an
\* upstream RUN_STARTED without threadId/runId fails validation, an exception
\* forward_request does not catch.  event_generator's "except Exception"
\* clauses take it.
UnexpectedException ==
    /\ InCall
    /\ fr.state = "streaming"
    /\ fr.agent.protocol = "ag-ui"
    /\ up.sent = 0
    /\ fr' = [fr EXCEPT !.state = "crashed"]
    /\ IF pc = "primary"
       THEN /\ primary_failed' = TRUE
            /\ failure_context' = "unexpected"
            /\ pc' = "failed"
       ELSE /\ pc' = "fallback_crashed"
            /\ UNCHANGED <<primary_failed, failure_context>>
    /\ UNCHANGED <<agents_config, max_attempts, agent, out, fwd, raised, up,
                   routeVars, translatorVars, reloadVars,
                   watchVars, stripVars, backoffVars, matchVars, bufferVars>>

\* The loop is over without a return: forward_request yields RUN_ERROR and
\* raises AgentProxyError; event_generator's "except AgentProxyError" clause
\* of the running try block takes it
GiveUp ==
    /\ InCall
    /\ LoopOver(fr)
    /\ out' = out \o GiveUpEvents(fr)
    /\ fr' = Yield([fr EXCEPT !.state = "raised"], GiveUpEvents(fr))
    /\ raised' = Append(raised, ProxyError(fr))
    /\ IF pc = "primary"
       THEN /\ primary_failed' = TRUE
            /\ failure_context' = "proxy"
            /\ pc' = "failed"
       ELSE /\ pc' = "fallback_failed"
            /\ UNCHANGED <<primary_failed, failure_context>>
    /\ UNCHANGED <<agents_config, max_attempts, agent, fwd, up, routeVars, translatorVars, reloadVars,
                   watchVars, stripVars, backoffVars, matchVars, bufferVars>>

(***************************************************************************)
(* chat.event_generator after the primary forward                          *)
(***************************************************************************)
\* A fallback that is tried whichever agent has failed
FallsBack_AnyAgent(config, a) == primary_failed

\* if primary_failed and not agents_config.is_default_agent(agent)
FallsBack(config, a) == primary_failed /\ ~is_default_agent(config, a)

\* The fallback branch: the notice events, then forward_request is invoked
\* with the default agent
Fallback ==
    /\ pc = "failed"
    /\ FallsBack(agents_config, get_agent_by_id(agents_config, agent))
    /\ out' = out \o FallbackContext
    /\ fr' = NewFrame(get_default_agent(agents_config))
    /\ fwd' = Append(fwd, agents_config.default_agent)
    /\ up' = IdleUpstream
    /\ pc' = "fallback"
    /\ UNCHANGED <<agents_config, max_attempts, agent, primary_failed,
                   failure_context, raised, routeVars, translatorVars, reloadVars,
                   watchVars, stripVars, backoffVars, matchVars, bufferVars>>

\* elif primary_failed: the primary was the default agent
DefaultUnavailableEvents == <<Ev("RUN_ERROR", "pipeline", None)>>

DefaultUnavailable ==
    /\ pc = "failed"
    /\ ~FallsBack(agents_config, get_agent_by_id(agents_config, agent))
    /\ primary_failed
    /\ out' = out \o DefaultUnavailableEvents
    /\ pc' = "done"
    /\ UNCHANGED <<agents_config, max_attempts, agent, primary_failed,
                   failure_context, fwd, fr, up, raised, routeVars, translatorVars, reloadVars,
                   watchVars, stripVars, backoffVars, matchVars, bufferVars>>

\* except AgentProxyError as fallback_error / except Exception as
\* fallback_error: one RUN_ERROR, then the generator ends
FallbackFailedEvents == <<Ev("RUN_ERROR", "pipeline", None)>>

FallbackFailed ==
    /\ pc \in {"fallback_failed", "fallback_crashed"}
    /\ out' = out \o FallbackFailedEvents
    /\ pc' = "done"
    /\ UNCHANGED <<agents_config, max_attempts, agent, primary_failed,
                   failure_context, fwd, fr, up, raised, routeVars, translatorVars, reloadVars,
                   watchVars, stripVars, backoffVars, matchVars, bufferVars>>

(***************************************************************************)
(* A2ATranslator: texts are sequences of characters                         *)
(***************************************************************************)
\* str.startswith
StartsWith(text, prefix) ==
    /\ Len(prefix) <= Len(text)
    /\ SubSeq(text, 1, Len(prefix)) = prefix

\* the "in" operator of str: part occurs in text
Contains(text, part) ==
    \E i \in 0..(Len(text) - Len(part)) :
        SubSeq(text, i + 1, i + Len(part)) = part

\* " ".join(text.split()): whitespace runs become one space, the ends are
\* trimmed
RECURSIVE Squeeze(_, _)
Squeeze(text, i) ==
    IF i > Len(text) THEN <<>>
    ELSE IF text[i] = " "
         THEN IF i = 1 \/ text[i - 1] = " "
                       \/ \A k \in i..Len(text) : text[k] = " "
              THEN Squeeze(text, i + 1)
              ELSE <<" ">> \o Squeeze(text, i + 1)
    ELSE <<text[i]>> \o Squeeze(text, i + 1)

Normalized(text) == Squeeze(text, 1)

\* the length of the common prefix the zip loop counts
RECURSIVE CommonPrefix(_, _, _)
CommonPrefix(a, b, i) ==
    IF i > Len(a) \/ i > Len(b) \/ a[i] # b[i] THEN 0
    ELSE 1 + CommonPrefix(a, b, i + 1)

\* A2ATranslator._is_duplicate_content
is_duplicate_content(text, accumulated_text) ==
    IF accumulated_text = <<>> THEN FALSE
    ELSE IF text = accumulated_text THEN TRUE
    ELSE IF Contains(accumulated_text, text) THEN TRUE
    ELSE IF StartsWith(accumulated_text, text) THEN TRUE
    ELSE IF StartsWith(text, accumulated_text) THEN FALSE
    ELSE IF Normalized(text) = Normalized(accumulated_text) THEN TRUE
    ELSE IF /\ Len(accumulated_text) > 50
            /\ 9 * Len(accumulated_text) <= 10 * Len(text)
            /\ 10 * Len(text) <= 11 * Len(accumulated_text)
            /\ 10 * CommonPrefix(text, accumulated_text, 1)
                   > 8 * Len(accumulated_text)
         THEN TRUE
    ELSE FALSE

\* An AG-UI event of the translator; delta is <<>> except for content
TEvent(type, delta) == [type |-> type, delta |-> delta]

NoEvent == TEvent(None, <<>>)

\* One (event, new_message_started, new_accumulated_text) tuple
Step(event, message_started, accumulated_text) ==
    [event |-> event, message_started |-> message_started,
     accumulated_text |-> accumulated_text]

\* A2ATranslator._emit_text_events
emit_text_events(text, message_started, accumulated_text) ==
    LET cumulative == StartsWith(text, accumulated_text)
        new_content == IF cumulative
                       THEN SubSeq(text, Len(accumulated_text) + 1, Len(text))
                       ELSE text
        new_accumulated == IF cumulative THEN text
                           ELSE accumulated_text \o text
    IN (IF ~message_started
        THEN <<Step(TEvent("TEXT_MESSAGE_START", <<>>), TRUE, accumulated_text)>>
        ELSE <<>>)
       \o
       (IF new_content # <<>>
        THEN <<Step(TEvent("TEXT_MESSAGE_CONTENT", new_content), TRUE,
                    new_accumulated)>>
        ELSE <<>>)

\* A2ATranslator._translate_response.  A frame is [kind, text]: kind is
\* "task", "status", "artifact" or "other" (an error response or another
\* wrapper), text is what _extract_*_text finds, <<>> for None or "".
translate_response(frame, message_started, accumulated_text) ==
    LET emits == /\ frame.text # <<>>
                 /\ \/ frame.kind \in {"status", "artifact"}
                    \/ /\ frame.kind = "task"
                       /\ ~is_duplicate_content(frame.text, accumulated_text)
        results == IF emits
                   THEN emit_text_events(frame.text, message_started,
                                         accumulated_text)
                   ELSE <<>>
    IN IF results # <<>> THEN results
       ELSE IF emits
            THEN <<Step(NoEvent, TRUE, accumulated_text \o frame.text)>>
       ELSE <<Step(NoEvent, message_started, accumulated_text)>>

\* The events among the tuples, in order
RECURSIVE EventsOf(_)
EventsOf(results) ==
    IF results = <<>> THEN <<>>
    ELSE (IF Head(results).event # NoEvent THEN <<Head(results).event>>
          ELSE <<>>) \o EventsOf(Tail(results))

\* state: "idle" before the generator is started, "open" while it reads the
\* stream, "closed" when it has ended
IdleTranslator ==
    [state |-> "idle", message_started |-> FALSE, accumulated_text |-> <<>>,
     frames |-> <<>>, events |-> <<>>]

(***************************************************************************)
(* Hot reload: the SemanticRouter index and the ConfigReloader             *)
(***************************************************************************)
\* No AgentsConfig: the None of a config not loaded
NoConfig ==
    [session |-> [sticky_enabled |-> FALSE, timeout_minutes |-> 0,
                  topic_drift_threshold |-> 0],
     default_agent |-> None, agents |-> <<>>]

\* A file whose default agent is not among its agents
InvalidConfig == [CatalogB EXCEPT !.default_agent = "missing"]

\* load_agents_config accepts the content: AgentsConfig needs one agent at
\* least and validate_default_agent_exists must pass
Validates(content) ==
    /\ Len(content.agents) >= 1
    /\ get_agent_by_id(content, content.default_agent) # NoAgent

\* The embeddings of a router before build_index: None
NoEmbeddings == [built |-> FALSE, rows |-> <<>>]

\* What the config file can hold
FileContents == Catalogs \cup {InvalidConfig}

\* The routing example of an agent that has examples (one per agent; the
\* utterance is named after the agent it belongs to)
ExampleOf(a) == <<"example", a.id>>

\* SentenceTransformer.encode of one example: its embedding row
Encode(example) == <<"embedding", example[2]>>

\* app.state.semantic_router = None: the model could not be loaded at startup
NoSemanticRouter ==
    [model |-> FALSE, agents |-> <<>>, example_to_agent |-> <<>>,
     embeddings |-> NoEmbeddings]

\* SemanticRouter.__init__ followed by load_model
LoadedRouter ==
    [model |-> TRUE, agents |-> <<>>, example_to_agent |-> <<>>,
     embeddings |-> NoEmbeddings]

\* build_index: self._agents = list(config.agents)
BuildAgents(router, config) == [router EXCEPT !.agents = config.agents]

\* build_index: self._example_to_agent = []
BuildClear(router) == [router EXCEPT !.example_to_agent = <<>>]

\* build_index: one iteration of the loop over enumerate(self._agents); agents
\* without routing examples are skipped (agent_idx counts from 1 here)
BuildCollect(router, agent_idx) ==
    LET a == router.agents[agent_idx]
    IN IF a.routing.examples
       THEN [router EXCEPT !.example_to_agent =
                               Append(@, <<agent_idx, ExampleOf(a)>>)]
       ELSE router

\* build_index: self._embeddings = the encoding of all_examples, which lists
\* the examples in the order of _example_to_agent (empty without examples)
BuildEmbeddings(router) ==
    [router EXCEPT !.embeddings =
        [built |-> TRUE,
         rows |-> [i \in 1..Len(router.example_to_agent) |->
                      Encode(router.example_to_agent[i][2])]]]

RECURSIVE CollectFrom(_, _)
CollectFrom(router, agent_idx) ==
    IF agent_idx > Len(router.agents) THEN router
    ELSE CollectFrom(BuildCollect(router, agent_idx), agent_idx + 1)

\* SemanticRouter.build_index run to its end without interruption
build_index(router, config) ==
    BuildEmbeddings(CollectFrom(BuildClear(BuildAgents(router, config)), 1))

\* The threads that call ConfigReloader._on_config_change: the watchdog
\* observer (file events) and the event loop (POST /admin/reload-config)
ReloadThreads == {"watcher", "admin"}

\* What a reload works on: the catalog and the index of app.state
AppState(config, router) == [agents_config |-> config, semantic_router |-> router]

NoAppState == AppState(NoConfig, NoSemanticRouter)

\* A thread outside _on_config_change
IdleReload ==
    [pc |-> "idle", new_config |-> NoConfig, agent_idx |-> 0, result |-> FALSE,
     at |-> None, before |-> NoAppState, after |-> NoAppState]

\* A request that has not read app.state
IdleReader ==
    [pc |-> "idle", agents_config |-> NoConfig, embeddings |-> NoEmbeddings,
     example_to_agent |-> <<>>, agents |-> <<>>]

\* ConfigReloader.__init__
NewReloader == [lock |-> FALSE, reload_count |-> 0]

\* The application after lifespan startup with the model loaded, no reload
\* running and no request in flight
ReloadIdle ==
    /\ config_file = agents_config
    /\ semantic_router = build_index(LoadedRouter, agents_config)
    /\ reloader = NewReloader
    /\ reloading = [th \in ReloadThreads |-> IdleReload]
    /\ reader = IdleReader

\* ConfigFileHandler.__init__: _last_trigger = 0.0, nothing pending, the
\* lock free
NewHandler == [last_trigger |-> 0, pending_reload |-> FALSE, lock |-> None]

\* ConfigWatcher after start(): stop() has not been called
StartedWatcher == [pc |-> "started"]

\* The observer thread between two events, its queue empty
IdleObserver == [pc |-> "idle", queue |-> <<>>, emitted |-> 0]

\* The watcher after start(): the clock is far past _last_trigger
WatchIdle ==
    /\ wall_clock = Debounce
    /\ handler = NewHandler
    /\ observer = IdleObserver
    /\ timers = <<>>
    /\ handled = <<>>
    /\ watcher = StartedWatcher

\* The request of a routing decision that has not been made
NoRequest == [thread_id |-> None, text |-> <<>>,
              sim |-> [a \in AgentIds |-> 0], llm |-> None]

\* No routing decision made yet
NoRoute ==
    [request |-> NoRequest, before |-> NoStore, clock |-> 0, agent |-> None,
     method |-> None, topic_drift |-> FALSE, raised |-> FALSE]

\* No request parsed yet
NoCopy == [state |-> "idle", heap |-> <<>>, before |-> <<>>, request |-> 0,
           forwarded |-> 0, user_message |-> <<>>, status |-> 0,
           store |-> NoStore]

\* No call of match running
NoMatching == [state |-> "idle", agents |-> <<>>, example_to_agent |-> <<>>,
               similarities |-> <<>>, matches |-> <<>>]

\* No StreamBuffer
NoStreamBuffer ==
    [state |-> "idle", source |-> <<>>, read |-> 0, yielded |-> <<>>,
     max_content_size |-> 0, has_message |-> FALSE, frames |-> <<>>,
     accumulated_content |-> <<>>, complete |-> FALSE, sequence_num |-> 0,
     content_size |-> 0]

(***************************************************************************)
(* SpecChat: one chat request, from the routing decision to the end of the *)
(* stream                                                                   *)
(***************************************************************************)
InitChat ==
    /\ agents_config \in Catalogs
    /\ max_attempts \in 1..MaxAttemptsBound
    /\ agent \in AgentIds
    /\ pc = "primary"
    /\ primary_failed = FALSE
    /\ failure_context = None
    /\ out = <<>>
    /\ fwd = <<agent>>
    /\ fr = NewFrame(get_agent_by_id(agents_config, agent))
    /\ up = IdleUpstream
    /\ raised = <<>>
    /\ tr = IdleTranslator
    /\ ReloadIdle
    /\ WatchIdle
    /\ copying = NoCopy
    /\ retrying = NoRetry
    /\ matching = NoMatching
    /\ stream_buffer = NoStreamBuffer
    /\ session_store = NoStore
    /\ now = 0
    /\ pending = NoRequest
    /\ routed = NoRoute

NextChat ==
    \/ ForwardAttempt
    \/ AGUIEvent
    \/ AGUIEnd
    \/ AGUIHttpError
    \/ AGUITransportError
    \/ UnexpectedException
    \/ A2AFrame
    \/ A2AEnd
    \/ A2AError
    \/ GiveUp
    \/ Fallback
    \/ DefaultUnavailable
    \/ FallbackFailed

SpecChat == InitChat /\ [][NextChat]_vars

\* The event loop keeps running the generator while the client reads the
\* stream, and every upstream call ends, with a response or with an error
SpecChatFair == InitChat /\ [][NextChat]_vars /\ WF_vars(NextChat)

(***************************************************************************)
(* Mention parser: MENTION_PATTERN = @([a-zA-Z0-9_-]+)                      *)
(***************************************************************************)
HandleChars == {"a", "d", "m", "p", "x", "z", "M"}

\* str.lower on one character
Lower(c) == IF c = "M" THEN "m" ELSE c

\* The longest run of handle characters of text from position i on
RECURSIVE HandleFrom(_, _)
HandleFrom(text, i) ==
    IF i > Len(text) \/ text[i] \notin HandleChars THEN <<>>
    ELSE <<Lower(text[i])>> \o HandleFrom(text, i + 1)

\* MENTION_PATTERN.search from position i: the leftmost "@" that at least
\* one handle character follows
RECURSIVE SearchMention(_, _)
SearchMention(text, i) ==
    IF i > Len(text) THEN <<>>
    ELSE IF text[i] = "@" /\ HandleFrom(text, i + 1) # <<>>
         THEN HandleFrom(text, i + 1)
    ELSE SearchMention(text, i + 1)

\* parse_mention: the lowercased handle of the first mention, <<>> for None
parse_mention(message) == SearchMention(message, 1)

\* str.strip() leaves nothing
IsBlank(message) == \A i \in DOMAIN message : message[i] = " "

\* AgentsConfig.get_agent_by_handle: the first agent, in catalog order, that
\* lists the handle
RECURSIVE FirstWithHandle(_, _, _)
FirstWithHandle(agents, handle, i) ==
    IF i > Len(agents) THEN NoAgent
    ELSE IF \E k \in DOMAIN agents[i].handles : agents[i].handles[k] = handle
         THEN agents[i]
    ELSE FirstWithHandle(agents, handle, i + 1)

get_agent_by_handle(config, handle) == FirstWithHandle(config.agents, handle, 1)

(***************************************************************************)
(* Mention stripping: strip_mentions and _strip_mentions_from_request over *)
(* a heap of objects (requests, messages, content items), so that a copy   *)
(* and an update in place are different things                             *)
(***************************************************************************)
\* MENTION_PATTERN.sub("", message) from position i on
RECURSIVE RemoveMentions(_, _)
RemoveMentions(text, i) ==
    IF i > Len(text) THEN <<>>
    ELSE IF text[i] = "@" /\ HandleFrom(text, i + 1) # <<>>
         THEN RemoveMentions(text, i + 1 + Len(HandleFrom(text, i + 1)))
    ELSE <<text[i]>> \o RemoveMentions(text, i + 1)

\* strip_mentions: every mention removed, whitespace normalised
strip_mentions(message) ==
    IF message = <<>> THEN message
    ELSE Normalized(RemoveMentions(message, 1))

\* An object of the heap: a request (refs: its messages), a message (role;
\* kind "str" with text, kind "list" with refs to its items, or kind "none")
\* or a content item (kind "text" with text, or kind "binary" without)
Obj(type, role, kind, text, refs) ==
    [type |-> type, role |-> role, kind |-> kind, text |-> text, refs |-> refs]

\* The heap with one more object; the new object's id is the heap's length
Alloc(heap, obj) == Append(heap, obj)

\* model_copy(update=...) of a message or an item written over the original
model_copy_InPlace(heap, id, obj) == [heap |-> [heap EXCEPT ![id] = obj], id |-> id]

\* model_copy(update=...): a new object, the original left alone
model_copy(heap, id, obj) == [heap |-> Alloc(heap, obj), id |-> Len(heap) + 1]

\* The loop over the items of a list content from position i on: an item
\* with a text is copied with its text stripped, any other item is kept
RECURSIVE StripItems(_, _, _)
StripItems(heap, items, i) ==
    IF i > Len(items) THEN [heap |-> heap, ids |-> <<>>]
    ELSE LET item == heap[items[i]]
             one == IF item.kind = "text"
                    THEN model_copy(heap, items[i],
                             [item EXCEPT !.text = strip_mentions(item.text)])
                    ELSE [heap |-> heap, id |-> items[i]]
             rest == StripItems(one.heap, items, i + 1)
         IN [heap |-> rest.heap, ids |-> <<one.id>> \o rest.ids]

\* The loop over request.messages from position i on: a user message is
\* copied with its content stripped, any other message is kept
RECURSIVE StripMessages(_, _, _)
StripMessages(heap, messages, i) ==
    IF i > Len(messages) THEN [heap |-> heap, ids |-> <<>>]
    ELSE LET message == heap[messages[i]]
             items == StripItems(heap, message.refs, 1)
             one == IF message.role # "user"
                    THEN [heap |-> heap, id |-> messages[i]]
                    ELSE IF message.kind = "str"
                    THEN model_copy(heap, messages[i],
                             [message EXCEPT
                                  !.text = strip_mentions(message.text)])
                    ELSE IF message.kind = "list"
                    THEN model_copy(items.heap, messages[i],
                             [message EXCEPT !.refs = items.ids])
                    ELSE model_copy(heap, messages[i], message)
             rest == StripMessages(one.heap, messages, i + 1)
         IN [heap |-> rest.heap, ids |-> <<one.id>> \o rest.ids]

\* _strip_mentions_from_request: the heap afterwards and the id of the
\* request it returns
strip_mentions_from_request(heap, request) ==
    LET stripped == StripMessages(heap, heap[request].refs, 1)
    IN [heap |-> Alloc(stripped.heap,
                       [heap[request] EXCEPT !.refs = stripped.ids]),
        id |-> Len(stripped.heap) + 1]

\* texts joined by a blank: " ".join(texts)
RECURSIVE JoinTexts(_)
JoinTexts(texts) ==
    IF Len(texts) = 0 THEN <<>>
    ELSE IF Len(texts) = 1 THEN texts[1]
    ELSE texts[1] \o <<" ">> \o JoinTexts(Tail(texts))

\* The texts of the items of a list content that have one
ItemTexts(heap, items) ==
    LET with_text == SelectSeq(items, LAMBDA id : heap[id].kind = "text")
    IN [i \in 1..Len(with_text) |-> heap[with_text[i]].text]

\* _extract_user_message from message i down to the first: found is false
\* for None
RECURSIVE ExtractFrom(_, _, _)
ExtractFrom(heap, messages, i) ==
    IF i < 1 THEN [found |-> FALSE, text |-> <<>>]
    ELSE LET message == heap[messages[i]]
         IN IF message.role = "user" /\ message.kind = "str"
            THEN [found |-> TRUE, text |-> message.text]
            ELSE IF /\ message.role = "user"
                    /\ message.kind = "list"
                    /\ Len(ItemTexts(heap, message.refs)) > 0
            THEN [found |-> TRUE,
                  text |-> JoinTexts(ItemTexts(heap, message.refs))]
            ELSE ExtractFrom(heap, messages, i - 1)

\* _extract_user_message
extract_user_message(heap, request) ==
    ExtractFrom(heap, heap[request].refs, Len(heap[request].refs))

\* The message texts of the requests explored
MessageTexts ==
    {<<"x">>, <<"@", "m", " ", "x">>, <<"x", " ", "@", "d", " ", "@", "z">>,
     <<"x", " ", " ", "x">>}

\* The shapes of the messages explored: [role, kind, text, items], the items
\* of a list content being [kind, text]
ItemShapes ==
    [kind : {"text"}, text : {<<"@", "m", " ", "x">>, <<"x">>}]
        \cup {[kind |-> "binary", text |-> <<>>]}

MessageShapes ==
    [role : {"user", "assistant"}, kind : {"str"}, text : MessageTexts,
     items : {<<>>}]
    \cup [role : {"user", "assistant"}, kind : {"list"}, text : {<<>>},
          items : {<<i>> : i \in ItemShapes}
                      \cup {<<[kind |-> "text", text |-> <<"@", "m", " ", "x">>],
                              [kind |-> "binary", text |-> <<>>]>>}]
    \cup [role : {"user", "system"}, kind : {"none"}, text : {<<>>},
          items : {<<>>}]

\* The heap with the items of a shape allocated from position i on
RECURSIVE NewItems(_, _, _)
NewItems(heap, items, i) ==
    IF i > Len(items) THEN [heap |-> heap, ids |-> <<>>]
    ELSE LET h == Alloc(heap, Obj("item", None, items[i].kind,
                                  items[i].text, <<>>))
             rest == NewItems(h, items, i + 1)
         IN [heap |-> rest.heap, ids |-> <<Len(h)>> \o rest.ids]

\* The heap with the messages of the shapes allocated from position i on
RECURSIVE NewMessages(_, _, _)
NewMessages(heap, shapes, i) ==
    IF i > Len(shapes) THEN [heap |-> heap, ids |-> <<>>]
    ELSE LET items == NewItems(heap, shapes[i].items, 1)
             h == Alloc(items.heap, Obj("message", shapes[i].role,
                            shapes[i].kind, shapes[i].text, items.ids))
             rest == NewMessages(h, shapes, i + 1)
         IN [heap |-> rest.heap, ids |-> <<Len(h)>> \o rest.ids]

\* A parsed ChatRequest with the given messages: the heap and the request
NewChatRequest(shapes) ==
    LET messages == NewMessages(<<>>, shapes, 1)
    IN [heap |-> Alloc(messages.heap,
                       Obj("request", None, None, <<>>, messages.ids)),
        id |-> Len(messages.heap) + 1]

(***************************************************************************)
(* Semantic matcher and drift detector.  A request carries, for every      *)
(* agent id, the best cosine similarity of its text against that agent's   *)
(* examples (sim), which is what the embedding model decides.              *)
(***************************************************************************)
HasExamples(a) == a.routing.examples

\* SemanticRouter.match keeps the agents of the index whose best score
\* reaches their threshold; positions are those of config.agents
Matches(config, request) ==
    {i \in DOMAIN config.agents :
        /\ HasExamples(config.agents[i])
        /\ request.sim[config.agents[i].id] >= config.agents[i].routing.threshold}

\* matches.sort(key = (-score, priority)): i sorts before j; the sort is
\* stable, so equal keys keep the order of the index
SortsBefore(config, request, i, j) ==
    LET si == request.sim[config.agents[i].id]
        sj == request.sim[config.agents[j].id]
        pi == config.agents[i].routing.priority
        pj == config.agents[j].routing.priority
    IN \/ si > sj
       \/ si = sj /\ pi < pj
       \/ si = sj /\ pi = pj /\ i < j

\* SemanticRouter.match_best: matches[0], NoAgent for None.  Raises
\* ValueError for a blank message (the caller checks IsBlank first).
match_best(config, request) ==
    LET m == Matches(config, request)
    IN IF m = {} THEN NoAgent
       ELSE config.agents[CHOOSE i \in m :
                \A j \in m \ {i} : SortsBefore(config, request, i, j)]

\* SemanticRouter.compute_similarity, with ValueError reported as "raised"
compute_similarity(request, a) ==
    IF IsBlank(request.text) THEN [raised |-> TRUE, score |-> 0]
    ELSE IF ~HasExamples(a) THEN [raised |-> FALSE, score |-> 0]
    ELSE [raised |-> FALSE, score |-> request.sim[a.id]]

\* A drift check that also counts a score equal to the threshold as drift
detect_topic_drift_Inclusive(request, a, drift_threshold) ==
    LET sim == compute_similarity(request, a)
    IN IF sim.raised
       THEN [drifted |-> TRUE, similarity_score |-> 0]
       ELSE [drifted |-> sim.score <= drift_threshold,
             similarity_score |-> sim.score]

\* detect_topic_drift: DriftResult(drifted, similarity_score)
detect_topic_drift(request, a, drift_threshold) ==
    LET sim == compute_similarity(request, a)
    IN IF sim.raised
       THEN [drifted |-> TRUE, similarity_score |-> 0]
       ELSE [drifted |-> sim.score < drift_threshold,
             similarity_score |-> sim.score]

(***************************************************************************)
(* _route_with_sessions, step by step.  r is the state of the locals:      *)
(* agent, routing_method, topic_drift_detected, the session store as the   *)
(* call has left it so far, and whether an exception has escaped.          *)
(***************************************************************************)
RouteStart(store) ==
    [agent |-> NoAgent, method |-> "semantic", topic_drift |-> FALSE,
     raised |-> FALSE, store |-> store]

\* Step 1: @mention override
MentionStep(config, request, r) ==
    LET mentioned_handle == parse_mention(request.text)
        found == get_agent_by_handle(config, mentioned_handle)
    IN IF mentioned_handle # <<>> /\ found # NoAgent
       THEN [r EXCEPT !.agent = found, !.method = "mention"]
       ELSE r

\* A step 2 that trusts the agent a session names without looking it up in
\* the active catalog (it is taken from the catalog read at startup)
StickyBody_Unchecked(config, request, clock, r) ==
    LET got == store_get(r.store, request.thread_id, clock)
        sticky_agent == get_agent_by_id(CatalogA, got.session.agent_id)
        drift_result == detect_topic_drift(request, sticky_agent,
                                           config.session.topic_drift_threshold)
    IN IF got.session = NoSession THEN [r EXCEPT !.store = got.store]
       ELSE IF ~drift_result.drifted
       THEN [r EXCEPT !.agent = sticky_agent, !.method = "sticky",
                      !.store = store_touch(got.store, request.thread_id,
                                            clock).store]
       ELSE [r EXCEPT !.topic_drift = TRUE,
                      !.store = store_delete(got.store, request.thread_id)]

\* The body of step 2: look the session up, check drift, stay or delete
StickyBody(config, request, clock, r) ==
    LET got == store_get(r.store, request.thread_id, clock)
        sticky_agent == get_agent_by_id(config, got.session.agent_id)
        drift_result == detect_topic_drift(request, sticky_agent,
                                           config.session.topic_drift_threshold)
    IN IF got.session = NoSession THEN [r EXCEPT !.store = got.store]
       ELSE IF sticky_agent = NoAgent THEN [r EXCEPT !.store = got.store]
       ELSE IF ~drift_result.drifted
       THEN [r EXCEPT !.agent = sticky_agent, !.method = "sticky",
                      !.store = store_touch(got.store, request.thread_id,
                                            clock).store]
       ELSE [r EXCEPT !.topic_drift = TRUE,
                      !.store = store_delete(got.store, request.thread_id)]

\* A sticky step that does not look at what step 1 found
StickyStep_OverMention(config, request, clock, r) ==
    IF r.store.enabled
    THEN StickyBody(config, request, clock, [r EXCEPT !.agent = NoAgent])
    ELSE r

\* Step 2: existing session, if no mention chose an agent
StickyStep(config, request, clock, r) ==
    IF r.agent = NoAgent /\ r.store.enabled
    THEN StickyBody(config, request, clock, r)
    ELSE r

\* classify_with_llm: the agent the classifier names, NoAgent for None; the
\* outcome "error" is LLMFallbackError, reported as "raised"
classify_with_llm(config, request) ==
    IF request.llm = "error" THEN [raised |-> TRUE, agent |-> NoAgent]
    ELSE [raised |-> FALSE, agent |-> get_agent_by_id(config, request.llm)]

\* An except clause that lets LLMFallbackError out of the routing call
OnLLMFallbackError_Raises(r) == [r EXCEPT !.raised = TRUE]

\* except LLMFallbackError: the failure is logged and no agent is chosen
OnLLMFallbackError(r) == r

\* Step 3: semantic match, then LLM classification, then the default agent
SemanticStep(config, request, r) ==
    IF r.agent # NoAgent THEN r
    ELSE IF IsBlank(request.text) THEN [r EXCEPT !.raised = TRUE]
    ELSE LET match == match_best(config, request)
             classified == classify_with_llm(config, request)
             tried == IF Len(config.agents) = 0 THEN r
                      ELSE IF classified.raised THEN OnLLMFallbackError(r)
                      ELSE IF classified.agent # NoAgent
                      THEN [r EXCEPT !.agent = classified.agent,
                                     !.method = "llm_fallback"]
                      ELSE r
         IN IF match # NoAgent
            THEN [r EXCEPT !.agent = match, !.method = "semantic"]
            ELSE IF tried.raised \/ tried.agent # NoAgent THEN tried
            ELSE [r EXCEPT !.agent = get_default_agent(config),
                           !.method = "default"]

\* A step 4 that leaves an existing session of the thread alone
SessionStep_KeepExisting(config, request, clock, r) ==
    IF r.raised THEN r
    ELSE IF /\ r.store.enabled /\ config.session.sticky_enabled
            /\ r.store.sessions[request.thread_id] = NoSession
    THEN [r EXCEPT !.store = store_set(r.store, request.thread_id, r.agent.id,
                                       r.agent.handles[1], clock)]
    ELSE r

\* Step 4: write the session
SessionStep(config, request, clock, r) ==
    IF r.raised THEN r
    ELSE IF r.store.enabled /\ config.session.sticky_enabled
    THEN [r EXCEPT !.store = store_set(r.store, request.thread_id, r.agent.id,
                                       r.agent.handles[1], clock)]
    ELSE r

route_with_sessions(config, store, request, clock) ==
    SessionStep(config, request, clock,
        SemanticStep(config, request,
            StickyStep(config, request, clock,
                MentionStep(config, request, RouteStart(store)))))

(***************************************************************************)
(* SpecRoute: requests are routed one after the other while the clock runs *)
(***************************************************************************)
PlainText   == <<"x">>
MentionText == <<"@", "M", " ", "x">>
SharedText  == <<"x", "@", "p">>
UnknownText == <<"@", "z", " ", "@", "m">>
BlankText   == <<" ">>

Texts == {PlainText, MentionText, SharedText, UnknownText, BlankText}

\* What the classifier may answer: an agent id, no usable answer, a failure
LLMOutcomes == {"metrics", None, "error"}

\* A similarity profile: the best score of the message against the examples
\* of each agent, in tenths
Sim(metrics, troubleshooting, general) ==
    [a \in AgentIds |->
        IF a = "metrics" THEN metrics
        ELSE IF a = "troubleshooting" THEN troubleshooting
        ELSE general]

Sims ==
    {Sim(0, 0, 0), Sim(9, 0, 0), Sim(9, 9, 0), Sim(5, 5, 0), Sim(0, 0, 9),
     Sim(5, 9, 9)}

Requests ==
    [thread_id : Threads, text : Texts, sim : Sims, llm : LLMOutcomes]

\* A POST to the chat endpoint arrives; requests are taken one at a time
Receive ==
    /\ pending = NoRequest
    /\ routed = NoRoute
    /\ pending' \in Requests
    /\ UNCHANGED <<agents_config, session_store, now, routed, chatVars, translatorVars, reloadVars,
                   watchVars, stripVars, backoffVars, matchVars, bufferVars>>

\* chat() routes the request: _route_with_sessions runs on the active
\* catalog and the session store
RouteRequest ==
    /\ pending # NoRequest
    /\ LET r == route_with_sessions(agents_config, session_store, pending, now)
       IN /\ session_store' = r.store
          /\ routed' = [request |-> pending,
                        before |-> session_store,
                        clock |-> now,
                        agent |-> IF r.raised THEN None ELSE r.agent.id,
                        method |-> IF r.raised THEN None ELSE r.method,
                        topic_drift |-> r.topic_drift,
                        raised |-> r.raised]
    /\ pending' = NoRequest
    /\ UNCHANGED <<agents_config, now, chatVars, translatorVars, reloadVars,
                   watchVars, stripVars, backoffVars, matchVars, bufferVars>>

\* The response to the routed request has ended
Respond ==
    /\ routed # NoRoute
    /\ routed' = NoRoute
    /\ UNCHANGED <<agents_config, session_store, now, pending, chatVars, translatorVars, reloadVars,
                   watchVars, stripVars, backoffVars, matchVars, bufferVars>>

\* Time passes
Tick ==
    /\ now < MaxTime
    /\ now' = now + 1
    /\ UNCHANGED <<agents_config, session_store, pending, routed, chatVars, translatorVars, reloadVars,
                   watchVars, stripVars, backoffVars, matchVars, bufferVars>>

InitRoute ==
    /\ agents_config \in Catalogs
    /\ \E enabled \in BOOLEAN :
         session_store = IF enabled
                         THEN EmptyStore(agents_config.session.timeout_minutes)
                         ELSE NoStore
    /\ now = 0
    /\ pending = NoRequest
    /\ routed = NoRoute
    /\ max_attempts = 1
    /\ agent = None
    /\ pc = "idle"
    /\ primary_failed = FALSE
    /\ failure_context = None
    /\ out = <<>>
    /\ fwd = <<>>
    /\ fr = IdleFrame
    /\ up = IdleUpstream
    /\ raised = <<>>
    /\ tr = IdleTranslator
    /\ ReloadIdle
    /\ WatchIdle
    /\ copying = NoCopy
    /\ retrying = NoRetry
    /\ matching = NoMatching
    /\ stream_buffer = NoStreamBuffer

NextRoute ==
    \/ Receive
    \/ RouteRequest
    \/ Respond
    \/ Tick

SpecRoute == InitRoute /\ [][NextRoute]_vars

(***************************************************************************)
(* SpecTranslate: one run of _translate_stream over a stream of A2A frames *)
(***************************************************************************)
\* The texts a frame may carry: <<>> when it carries none, else a run of
\* "a" or such a run ending in a blank (the whitespace _is_duplicate_content
\* normalises away)
FrameTexts ==
    {<<>>} \cup UNION {{[i \in 1..n |-> "a"],
                        [i \in 1..n |-> IF i = n THEN " " ELSE "a"]} :
                           n \in 1..MaxText}

Frames ==
    [kind : {"task", "status", "artifact"}, text : FrameTexts]
        \cup {[kind |-> "other", text |-> <<>>]}

\* The generator is started: RUN_STARTED is yielded before the stream is read
TranslateStart ==
    /\ tr.state = "idle"
    /\ tr' = [tr EXCEPT !.state = "open",
                        !.events = <<TEvent("RUN_STARTED", <<>>)>>]
    /\ UNCHANGED <<agents_config, chatVars, routeVars, reloadVars, watchVars, stripVars, backoffVars, matchVars, bufferVars>>

\* What the end of the stream yields when the message is left open
EndEvents_Unclosed(message_started) == <<TEvent("RUN_FINISHED", <<>>)>>

\* What the end of the stream yields: the message is closed if it was
\* started, then the run is finished
EndEvents(message_started) ==
    (IF message_started THEN <<TEvent("TEXT_MESSAGE_END", <<>>)>> ELSE <<>>)
    \o <<TEvent("RUN_FINISHED", <<>>)>>

\* Locals that stay what the first tuple of a frame says
LastStep_First(results) == results[1]

\* for event, new_started, new_text in events: after the loop the locals are
\* those of the last tuple
LastStep(results) == results[Len(results)]

\* async for response in stream: one frame is translated, the locals take
\* the values of the last tuple and the events of the tuples are yielded
TranslateFrame ==
    /\ tr.state = "open"
    /\ Len(tr.frames) < MaxFrames
    /\ \E frame \in Frames :
         LET results == translate_response(frame, tr.message_started,
                                           tr.accumulated_text)
             last == LastStep(results)
         IN tr' = [tr EXCEPT !.frames = Append(@, frame),
                             !.message_started = last.message_started,
                             !.accumulated_text = last.accumulated_text,
                             !.events = @ \o EventsOf(results)]
    /\ UNCHANGED <<agents_config, chatVars, routeVars, reloadVars, watchVars, stripVars, backoffVars, matchVars, bufferVars>>

\* The stream is exhausted
TranslateEnd ==
    /\ tr.state = "open"
    /\ tr' = [tr EXCEPT !.state = "closed",
                        !.events = @ \o EndEvents(tr.message_started)]
    /\ UNCHANGED <<agents_config, chatVars, routeVars, reloadVars, watchVars, stripVars, backoffVars, matchVars, bufferVars>>

\* The stream raises: except Exception yields RUN_ERROR and the generator
\* ends
TranslateError ==
    /\ tr.state = "open"
    /\ tr' = [tr EXCEPT !.state = "closed",
                        !.events = @ \o <<TEvent("RUN_ERROR", <<>>)>>]
    /\ UNCHANGED <<agents_config, chatVars, routeVars, reloadVars, watchVars, stripVars, backoffVars, matchVars, bufferVars>>

InitTranslate ==
    /\ agents_config = CatalogA
    /\ session_store = NoStore
    /\ now = 0
    /\ pending = NoRequest
    /\ routed = NoRoute
    /\ max_attempts = 1
    /\ agent = None
    /\ pc = "idle"
    /\ primary_failed = FALSE
    /\ failure_context = None
    /\ out = <<>>
    /\ fwd = <<>>
    /\ fr = IdleFrame
    /\ up = IdleUpstream
    /\ raised = <<>>
    /\ tr = IdleTranslator
    /\ ReloadIdle
    /\ WatchIdle
    /\ copying = NoCopy
    /\ retrying = NoRetry
    /\ matching = NoMatching
    /\ stream_buffer = NoStreamBuffer

NextTranslate ==
    \/ TranslateStart
    \/ TranslateFrame
    \/ TranslateEnd
    \/ TranslateError

SpecTranslate == InitTranslate /\ [][NextTranslate]_vars

(***************************************************************************)
(* SpecReload: hot reload of the catalog and of the semantic index, run by *)
(* the watcher thread and by the admin endpoint, next to a chat request    *)
(* that reads app.state and matches against the index                     *)
(***************************************************************************)
\* threading.Lock.acquire(blocking=False) succeeds
LockFree_Always(r) == TRUE

LockFree(r) == ~r.lock

\* The catalog and the index app.state holds now
Current == AppState(agents_config, semantic_router)

\* The thread's call returns `result` from the return statement `at`
ReturnsFrom(th, result, at, after) ==
    [IdleReload EXCEPT !.pc = "returned", !.result = result, !.at = at,
                       !.before = reloading[th].before, !.after = after]

\* _on_config_change entered (reload() by the admin endpoint, the watcher's
\* callback): the lock is taken without blocking, or the call returns False
Trigger(th) ==
    /\ reloading[th].pc = "idle"
    /\ th = "admin" => reader.pc = "idle"
    /\ reloader.reload_count < MaxReloads
    /\ IF LockFree(reloader)
       THEN /\ reloader' = [reloader EXCEPT !.lock = TRUE]
            /\ reloading' = [reloading EXCEPT ![th] =
                   [IdleReload EXCEPT !.pc = "load", !.before = Current]]
       ELSE /\ reloading' = [reloading EXCEPT ![th] =
                   [IdleReload EXCEPT !.pc = "returned", !.result = FALSE,
                                      !.at = "lock", !.before = Current,
                                      !.after = Current]]
            /\ UNCHANGED reloader
    /\ UNCHANGED <<agents_config, config_file, semantic_router, reader,
                   chatVars, routeVars, translatorVars, watchVars, stripVars, backoffVars, matchVars, bufferVars>>

\* _perform_reload steps 1 to 3 up to the build_index call: the cache is
\* cleared, the file loaded and validated, the router looked up
LoadConfig(th) ==
    /\ reloading[th].pc = "load"
    /\ IF ~Validates(config_file)
       THEN /\ reloading' = [reloading EXCEPT ![th] =
                                 ReturnsFrom(th, FALSE, "load", Current)]
            /\ reloader' = [reloader EXCEPT !.lock = FALSE]
       ELSE IF ~semantic_router.model
       THEN /\ reloading' = [reloading EXCEPT ![th] =
                                 ReturnsFrom(th, FALSE, "router", Current)]
            /\ reloader' = [reloader EXCEPT !.lock = FALSE]
       ELSE /\ reloading' = [reloading EXCEPT ![th].pc = "agents",
                                              ![th].new_config = config_file]
            /\ UNCHANGED reloader
    /\ UNCHANGED <<agents_config, config_file, semantic_router, reader,
                   chatVars, routeVars, translatorVars, watchVars, stripVars, backoffVars, matchVars, bufferVars>>

\* build_index: the agent list of the shared router is replaced
BuildIndexAgents(th) ==
    /\ reloading[th].pc = "agents"
    /\ semantic_router' = BuildAgents(semantic_router, reloading[th].new_config)
    /\ reloading' = [reloading EXCEPT ![th].pc = "clear"]
    /\ UNCHANGED <<agents_config, config_file, reloader, reader,
                   chatVars, routeVars, translatorVars, watchVars, stripVars, backoffVars, matchVars, bufferVars>>

\* build_index: the example-to-agent mapping is emptied
BuildIndexClear(th) ==
    /\ reloading[th].pc = "clear"
    /\ semantic_router' = BuildClear(semantic_router)
    /\ reloading' = [reloading EXCEPT ![th].pc = "collect",
                                      ![th].agent_idx = 1]
    /\ UNCHANGED <<agents_config, config_file, reloader, reader,
                   chatVars, routeVars, translatorVars, watchVars, stripVars, backoffVars, matchVars, bufferVars>>

\* build_index: one iteration of the loop over the agents
BuildIndexCollect(th) ==
    /\ reloading[th].pc = "collect"
    /\ reloading[th].agent_idx <= Len(semantic_router.agents)
    /\ semantic_router' = BuildCollect(semantic_router, reloading[th].agent_idx)
    /\ reloading' = [reloading EXCEPT ![th].agent_idx = @ + 1]
    /\ UNCHANGED <<agents_config, config_file, reloader, reader,
                   chatVars, routeVars, translatorVars, watchVars, stripVars, backoffVars, matchVars, bufferVars>>

\* build_index: the examples are encoded and the embeddings replaced
BuildIndexEmbed(th) ==
    /\ reloading[th].pc = "collect"
    /\ reloading[th].agent_idx > Len(semantic_router.agents)
    /\ semantic_router' = BuildEmbeddings(semantic_router)
    /\ reloading' = [reloading EXCEPT ![th].pc = "swap"]
    /\ UNCHANGED <<agents_config, config_file, reloader, reader,
                   chatVars, routeVars, translatorVars, watchVars, stripVars, backoffVars, matchVars, bufferVars>>

\* build_index: encode raises; _perform_reload catches it and returns False
BuildIndexFails(th) ==
    /\ reloading[th].pc = "collect"
    /\ reloading[th].agent_idx > Len(semantic_router.agents)
    /\ semantic_router.example_to_agent # <<>>
    /\ reloading' = [reloading EXCEPT ![th] =
                         ReturnsFrom(th, FALSE, "build", Current)]
    /\ reloader' = [reloader EXCEPT !.lock = FALSE]
    /\ UNCHANGED <<agents_config, config_file, semantic_router, reader,
                   chatVars, routeVars, translatorVars, watchVars, stripVars, backoffVars, matchVars, bufferVars>>

\* The reloader after a reload that does not count itself
Reloaded_Uncounted(r) == [r EXCEPT !.lock = FALSE]

\* The reloader after a successful reload: self._reload_count += 1, and the
\* lock released by _on_config_change
Reloaded(r) == [lock |-> FALSE, reload_count |-> r.reload_count + 1]

\* _perform_reload step 4: the catalog is replaced and the reload counted
SwapConfig(th) ==
    /\ reloading[th].pc = "swap"
    /\ agents_config' = reloading[th].new_config
    /\ reloader' = Reloaded(reloader)
    /\ reloading' = [reloading EXCEPT ![th] =
           ReturnsFrom(th, TRUE, "done",
                    AppState(reloading[th].new_config, semantic_router))]
    /\ UNCHANGED <<config_file, semantic_router, reader,
                   chatVars, routeVars, translatorVars, watchVars, stripVars, backoffVars, matchVars, bufferVars>>

\* The caller has taken the result of its call
ReloadReturn(th) ==
    /\ reloading[th].pc = "returned"
    /\ reloading' = [reloading EXCEPT ![th] = IdleReload]
    /\ UNCHANGED <<agents_config, config_file, semantic_router, reloader,
                   reader, chatVars, routeVars, translatorVars, watchVars, stripVars, backoffVars, matchVars, bufferVars>>

\* The config file is rewritten
WriteConfig ==
    /\ \E content \in FileContents \ {config_file} : config_file' = content
    /\ UNCHANGED <<agents_config, semantic_router, reloader, reloading,
                   reader, chatVars, routeVars, translatorVars, watchVars, stripVars, backoffVars, matchVars, bufferVars>>

\* The event loop is not inside the admin endpoint's reload() call
LoopFree == reloading["admin"].pc = "idle"

\* chat: get_agents_config and get_semantic_router
ReadAppState ==
    /\ LoopFree
    /\ reader.pc = "idle"
    /\ semantic_router.model
    /\ reader' = [IdleReader EXCEPT !.pc = "embeddings",
                                    !.agents_config = agents_config]
    /\ UNCHANGED <<agents_config, config_file, semantic_router, reloader,
                   reloading, chatVars, routeVars, translatorVars, watchVars, stripVars, backoffVars, matchVars, bufferVars>>

\* match: similarities = np.dot(self._embeddings, query_embedding)
MatchEmbeddings ==
    /\ LoopFree
    /\ reader.pc = "embeddings"
    /\ reader' = [reader EXCEPT !.pc = "examples",
                                !.embeddings = semantic_router.embeddings]
    /\ UNCHANGED <<agents_config, config_file, semantic_router, reloader,
                   reloading, chatVars, routeVars, translatorVars, watchVars, stripVars, backoffVars, matchVars, bufferVars>>

\* match: agent_idx, example = self._example_to_agent[idx]
MatchExamples ==
    /\ LoopFree
    /\ reader.pc = "examples"
    /\ reader' = [reader EXCEPT !.pc = "agents",
                      !.example_to_agent = semantic_router.example_to_agent]
    /\ UNCHANGED <<agents_config, config_file, semantic_router, reloader,
                   reloading, chatVars, routeVars, translatorVars, watchVars, stripVars, backoffVars, matchVars, bufferVars>>

\* match: agent = self._agents[agent_idx]
MatchAgents ==
    /\ LoopFree
    /\ reader.pc = "agents"
    /\ reader' = [reader EXCEPT !.pc = "matched",
                                !.agents = semantic_router.agents]
    /\ UNCHANGED <<agents_config, config_file, semantic_router, reloader,
                   reloading, chatVars, routeVars, translatorVars, watchVars, stripVars, backoffVars, matchVars, bufferVars>>

\* The request is answered
RequestDone ==
    /\ LoopFree
    /\ reader.pc = "matched"
    /\ reader' = IdleReader
    /\ UNCHANGED <<agents_config, config_file, semantic_router, reloader,
                   reloading, chatVars, routeVars, translatorVars, watchVars, stripVars, backoffVars, matchVars, bufferVars>>

InitReload ==
    /\ agents_config \in Catalogs
    /\ config_file = agents_config
    /\ semantic_router \in {NoSemanticRouter,
                            build_index(LoadedRouter, agents_config)}
    /\ reloader = NewReloader
    /\ reloading = [th \in ReloadThreads |-> IdleReload]
    /\ reader = IdleReader
    /\ WatchIdle
    /\ copying = NoCopy
    /\ retrying = NoRetry
    /\ matching = NoMatching
    /\ stream_buffer = NoStreamBuffer
    /\ session_store = NoStore
    /\ now = 0
    /\ pending = NoRequest
    /\ routed = NoRoute
    /\ max_attempts = 1
    /\ agent = None
    /\ pc = "idle"
    /\ primary_failed = FALSE
    /\ failure_context = None
    /\ out = <<>>
    /\ fwd = <<>>
    /\ fr = IdleFrame
    /\ up = IdleUpstream
    /\ raised = <<>>
    /\ tr = IdleTranslator

NextReload ==
    \/ \E th \in ReloadThreads : Trigger(th)
    \/ \E th \in ReloadThreads : LoadConfig(th)
    \/ \E th \in ReloadThreads : BuildIndexAgents(th)
    \/ \E th \in ReloadThreads : BuildIndexClear(th)
    \/ \E th \in ReloadThreads : BuildIndexCollect(th)
    \/ \E th \in ReloadThreads : BuildIndexEmbed(th)
    \/ \E th \in ReloadThreads : BuildIndexFails(th)
    \/ \E th \in ReloadThreads : SwapConfig(th)
    \/ \E th \in ReloadThreads : ReloadReturn(th)
    \/ WriteConfig
    \/ ReadAppState
    \/ MatchEmbeddings
    \/ MatchExamples
    \/ MatchAgents
    \/ RequestDone

SpecReload == InitReload /\ [][NextReload]_vars

(***************************************************************************)
(* SpecWatch: the config watcher. File events are queued for the observer  *)
(* thread, ConfigFileHandler debounces them with a timer thread, and the   *)
(* callback is ConfigReloader._on_config_change, which competes with the   *)
(* admin endpoint for the reloader's lock                                  *)
(***************************************************************************)
\* The thread whose reload holds the reloader's lock, or None
Reloading ==
    IF \E th \in ReloadThreads : reloading[th].pc \notin {"idle", "returned"}
    THEN CHOOSE th \in ReloadThreads :
             reloading[th].pc \notin {"idle", "returned"}
    ELSE None

\* One entry of a thread into the handler: `by` an event or a timer, what
\* it `did` (the callback, a timer started, nothing) and the reload that ran
\* when its event arrived
Handled(by, did, during) == [by |-> by, did |-> did, during |-> during]

\* The config file is rewritten and watchdog queues the event for the
\* observer thread
FileEvent ==
    /\ observer.emitted < MaxEvents
    /\ \E content \in FileContents \ {config_file} : config_file' = content
    /\ observer' = [observer EXCEPT !.queue = Append(@, [during |-> Reloading]),
                                    !.emitted = @ + 1]
    /\ UNCHANGED <<agents_config, semantic_router, reloader, reloading,
                   reader, wall_clock, handler, timers, handled, watcher,
                   chatVars, routeVars, translatorVars, stripVars, backoffVars, matchVars, bufferVars>>

\* _trigger_reload finds a reload pending already
StartTimer_Always(h) == TRUE

\* _trigger_reload inside the debounce window: a timer is started unless a
\* reload is pending
StartTimer(h) == ~h.pending_reload

\* on_modified, on_created, on_moved: the observer thread runs
\* _trigger_reload under the handler's lock. Inside the debounce window it
\* leaves a timer (or nothing) and returns; outside it goes on to the
\* callback, _last_trigger set (_execute_reload_internal)
DispatchEvent ==
    /\ observer.pc = "idle"
    /\ observer.queue # <<>>
    /\ handler.lock = None
    /\ LET event == Head(observer.queue)
           time_since_last == wall_clock - handler.last_trigger
       IN IF time_since_last < Debounce
          THEN /\ IF StartTimer(handler)
                  THEN /\ handler' = [handler EXCEPT !.pending_reload = TRUE]
                       /\ timers' = Append(timers,
                              [due |-> handler.last_trigger + Debounce,
                               state |-> "waiting", during |-> event.during])
                       /\ handled' = Append(handled,
                              Handled("event", "timer", event.during))
                  ELSE /\ handled' = Append(handled,
                              Handled("event", "none", event.during))
                       /\ UNCHANGED <<handler, timers>>
               /\ observer' = [observer EXCEPT !.queue = Tail(@)]
          ELSE /\ handler' = [handler EXCEPT !.last_trigger = wall_clock,
                                             !.lock = "observer"]
               /\ observer' = [observer EXCEPT !.queue = Tail(@),
                                               !.pc = "calling"]
               /\ handled' = Append(handled,
                      Handled("event", "call", event.during))
               /\ UNCHANGED timers
    /\ UNCHANGED <<agents_config, wall_clock, watcher, reloadVars,
                   chatVars, routeVars, translatorVars, stripVars, backoffVars, matchVars, bufferVars>>

\* A timer is due: its thread runs _execute_reload under the handler's lock
\* and goes on to the callback
TimerRuns ==
    /\ handler.lock = None
    /\ \E i \in 1..Len(timers) :
         /\ timers[i].state = "waiting"
         /\ wall_clock >= timers[i].due
         /\ timers' = [timers EXCEPT ![i].state = "calling"]
         /\ handled' = Append(handled,
                Handled("timer", "call", timers[i].during))
    /\ handler' = [last_trigger |-> wall_clock, pending_reload |-> FALSE,
                   lock |-> "timer"]
    /\ UNCHANGED <<agents_config, wall_clock, observer, watcher, reloadVars,
                   chatVars, routeVars, translatorVars, stripVars, backoffVars, matchVars, bufferVars>>

\* self._on_change(): the thread that holds the handler's lock enters
\* _on_config_change
CallbackEnters ==
    /\ handler.lock # None
    /\ Trigger("watcher")

\* The rest of _perform_reload after the file is loaded, run to its end: the
\* index is rebuilt, the catalog replaced and the reload counted
FinishReload(th) ==
    /\ reloading[th].pc = "agents"
    /\ semantic_router' = build_index(semantic_router, reloading[th].new_config)
    /\ agents_config' = reloading[th].new_config
    /\ reloader' = Reloaded(reloader)
    /\ reloading' = [reloading EXCEPT ![th] =
           ReturnsFrom(th, TRUE, "done",
               AppState(reloading[th].new_config,
                        build_index(semantic_router, reloading[th].new_config)))]
    /\ UNCHANGED <<config_file, reader, chatVars, routeVars, translatorVars,
                   watchVars, stripVars, backoffVars, matchVars, bufferVars>>

\* The callback returns: the handler's lock is released, the observer thread
\* is free for the next event or the timer thread ends
CallbackReturns ==
    /\ handler.lock # None
    /\ reloading["watcher"].pc = "returned"
    /\ reloading' = [reloading EXCEPT !["watcher"] = IdleReload]
    /\ handler' = [handler EXCEPT !.lock = None]
    /\ IF handler.lock = "observer"
       THEN /\ observer' = [observer EXCEPT !.pc = "idle"]
            /\ UNCHANGED timers
       ELSE /\ timers' = SelectSeq(timers, LAMBDA t : t.state # "calling")
            /\ UNCHANGED observer
    /\ UNCHANGED <<agents_config, config_file, semantic_router, reloader,
                   reader, wall_clock, handled, watcher, chatVars, routeVars,
                   translatorVars, stripVars, backoffVars, matchVars, bufferVars>>

\* Time passes; a timer that is due and not held up by the lock has run
ClockTick ==
    /\ wall_clock < MaxClock
    /\ \A i \in 1..Len(timers) :
         timers[i].state = "waiting" =>
             (wall_clock < timers[i].due \/ handler.lock # None)
    /\ wall_clock' = wall_clock + 1
    /\ UNCHANGED <<agents_config, handler, observer, timers, handled, watcher,
                   reloadVars, chatVars, routeVars, translatorVars, stripVars, backoffVars, matchVars, bufferVars>>

InitWatch ==
    /\ agents_config = CatalogA
    /\ ReloadIdle
    /\ WatchIdle
    /\ copying = NoCopy
    /\ retrying = NoRetry
    /\ matching = NoMatching
    /\ stream_buffer = NoStreamBuffer
    /\ session_store = NoStore
    /\ now = 0
    /\ pending = NoRequest
    /\ routed = NoRoute
    /\ max_attempts = 1
    /\ agent = None
    /\ pc = "idle"
    /\ primary_failed = FALSE
    /\ failure_context = None
    /\ out = <<>>
    /\ fwd = <<>>
    /\ fr = IdleFrame
    /\ up = IdleUpstream
    /\ raised = <<>>
    /\ tr = IdleTranslator

NextWatch ==
    \/ FileEvent
    \/ DispatchEvent
    \/ TimerRuns
    \/ CallbackEnters
    \/ CallbackReturns
    \/ ClockTick
    \/ Trigger("admin")
    \/ ReloadReturn("admin")
    \/ \E th \in ReloadThreads : LoadConfig(th)
    \/ \E th \in ReloadThreads : FinishReload(th)

SpecWatch == InitWatch /\ [][NextWatch]_vars

\* The threads run: the observer thread takes the next event from its queue,
\* a timer that is due fires, a thread inside the handler goes on to the
\* callback and returns from it, a reload that has started runs to its end,
\* and time passes. Nothing obliges the file to be rewritten or an operator
\* to call the admin endpoint
FairWatch ==
    /\ WF_vars(DispatchEvent)
    /\ WF_vars(TimerRuns)
    /\ WF_vars(CallbackEnters)
    /\ WF_vars(CallbackReturns)
    /\ WF_vars(ClockTick)
    /\ WF_vars(ReloadReturn("admin"))
    /\ \A th \in ReloadThreads :
          WF_vars(LoadConfig(th)) /\ WF_vars(FinishReload(th))

SpecWatchFair == InitWatch /\ [][NextWatch]_vars /\ FairWatch

(***************************************************************************)
(* SpecStop: ConfigWatcher.stop() is called while file events arrive and   *)
(* timers are pending. stop() first cancels the pending timer under the    *)
(* handler's lock, then stops the observer and joins it                    *)
(***************************************************************************)
\* Timer.cancel() sets the timer's finished event. The timer thread calls
\* its function unless it finds the event set when its wait ends, so the
\* cancel comes too late for a timer that is due and has ended its wait
CancelTimers(ts, too_late) ==
    IF too_late THEN ts ELSE SelectSeq(ts, LAMBDA t : t.state # "waiting")

\* stop() calls self._handler.cancel_pending(): with the handler's lock,
\* self._timer is cancelled and _pending_reload cleared
StopCancelsPending ==
    /\ watcher.pc = "started"
    /\ handler.lock = None
    /\ \E too_late \in BOOLEAN :
          /\ too_late => \E i \in 1..Len(timers) :
                            /\ timers[i].state = "waiting"
                            /\ wall_clock >= timers[i].due
          /\ timers' = CancelTimers(timers, too_late)
    /\ handler' = [handler EXCEPT !.pending_reload = FALSE]
    /\ watcher' = [pc |-> "cancelled"]
    /\ UNCHANGED <<agents_config, wall_clock, observer, handled, reloadVars,
                   chatVars, routeVars, translatorVars, stripVars,
                   backoffVars, matchVars, bufferVars>>

\* stop() then calls observer.stop() and observer.join(timeout=5.0) and
\* returns: the observer thread dispatches no further event, the events it
\* has not taken are dropped. A thread inside the handler has called the
\* callback by then; the join does not wait for the callback to return
StopJoinsObserver ==
    /\ watcher.pc = "cancelled"
    /\ observer.pc = "calling" => reloading["watcher"].pc # "idle"
    /\ observer' = [observer EXCEPT !.queue = <<>>]
    /\ watcher' = [pc |-> "stopped"]
    /\ UNCHANGED <<agents_config, wall_clock, handler, timers, handled,
                   reloadVars, chatVars, routeVars, translatorVars, stripVars,
                   backoffVars, matchVars, bufferVars>>

\* watchdog reports a change of the file while the observer is running
WatchedFileEvent == watcher.pc # "stopped" /\ FileEvent

\* The observer thread dispatches an event while it is running
ObserverDispatches == watcher.pc # "stopped" /\ DispatchEvent

NextStop ==
    \/ WatchedFileEvent
    \/ ObserverDispatches
    \/ TimerRuns
    \/ CallbackEnters
    \/ CallbackReturns
    \/ ClockTick
    \/ LoadConfig("watcher")
    \/ FinishReload("watcher")
    \/ StopCancelsPending
    \/ StopJoinsObserver

SpecStop == InitWatch /\ [][NextStop]_vars

(***************************************************************************)
(* SpecStrip: chat parses a request and copies it with the mentions        *)
(* stripped before forwarding it                                           *)
(***************************************************************************)
\* The requests explored: one to MaxMessages messages of the shapes above
ChatRequests ==
    UNION {[1..n -> MessageShapes] : n \in 1..MaxMessages}

\* forwarding_request = _strip_mentions_from_request(chat_request)
StripMentions ==
    /\ copying.state = "routed"
    /\ LET stripped == strip_mentions_from_request(copying.heap, copying.request)
       IN copying' = [copying EXCEPT !.state = "stripped",
                                     !.heap = stripped.heap,
                                     !.forwarded = stripped.id]
    /\ UNCHANGED <<agents_config, chatVars, routeVars, translatorVars,
                   reloadVars, watchVars, backoffVars, matchVars, bufferVars>>

InitStrip ==
    /\ \E shapes \in ChatRequests :
           LET parsed == NewChatRequest(shapes)
           IN copying = [NoCopy EXCEPT !.state = "routed",
                                       !.heap = parsed.heap,
                                       !.before = parsed.heap,
                                       !.request = parsed.id]
    /\ agents_config = CatalogA
    /\ session_store = NoStore
    /\ now = 0
    /\ pending = NoRequest
    /\ routed = NoRoute
    /\ max_attempts = 1
    /\ agent = None
    /\ pc = "idle"
    /\ primary_failed = FALSE
    /\ failure_context = None
    /\ out = <<>>
    /\ fwd = <<>>
    /\ fr = IdleFrame
    /\ up = IdleUpstream
    /\ raised = <<>>
    /\ tr = IdleTranslator
    /\ ReloadIdle
    /\ WatchIdle
    /\ retrying = NoRetry
    /\ matching = NoMatching
    /\ stream_buffer = NoStreamBuffer

NextStrip == StripMentions

SpecStrip == InitStrip /\ [][NextStrip]_vars

(***************************************************************************)
(* SpecBackoff: the for loop of AgentProxy.forward_request with the waits  *)
(* it makes before its retries, under the RetryConfigs explored            *)
(***************************************************************************)
\* An iteration starts: if attempt > 0, wait_before_retry(attempt), then the
\* request is forwarded
AttemptStarts ==
    /\ retrying.state = "loop"
    /\ retrying.attempt < retrying.config.max_attempts
    /\ retrying' = [retrying EXCEPT
           !.state = "forwarding",
           !.slept = IF retrying.attempt > 0
                     THEN wait_before_retry(retrying.config, retrying.attempt, @)
                     ELSE @]
    /\ UNCHANGED <<agents_config, chatVars, routeVars, translatorVars,
                   reloadVars, watchVars, stripVars, matchVars, bufferVars>>

\* The attempt fails with a retryable error: the loop goes on
AttemptFails ==
    /\ retrying.state = "forwarding"
    /\ retrying' = [retrying EXCEPT
           !.attempt = @ + 1,
           !.state = IF retrying.attempt + 1 < retrying.config.max_attempts
                     THEN "loop" ELSE "raised"]
    /\ UNCHANGED <<agents_config, chatVars, routeVars, translatorVars,
                   reloadVars, watchVars, stripVars, matchVars, bufferVars>>

\* The attempt succeeds (return) or fails with an error that is not
\* retryable (break)
AttemptEnds ==
    /\ retrying.state = "forwarding"
    /\ \E end \in {"returned", "raised"} :
           retrying' = [retrying EXCEPT !.state = end]
    /\ UNCHANGED <<agents_config, chatVars, routeVars, translatorVars,
                   reloadVars, watchVars, stripVars, matchVars, bufferVars>>

InitBackoff ==
    /\ \E max \in 1..MaxRetryAttempts, base_delay_ms \in 0..MaxBaseDelay,
          max_delay_ms \in 0..MaxDelayCap :
           retrying = [config |-> RetryConfig(max, base_delay_ms, max_delay_ms),
                       attempt |-> 0, state |-> "loop", slept |-> <<>>]
    /\ copying = NoCopy
    /\ matching = NoMatching
    /\ stream_buffer = NoStreamBuffer
    /\ agents_config = CatalogA
    /\ ReloadIdle
    /\ WatchIdle
    /\ session_store = NoStore
    /\ now = 0
    /\ pending = NoRequest
    /\ routed = NoRoute
    /\ max_attempts = 1
    /\ agent = None
    /\ pc = "idle"
    /\ primary_failed = FALSE
    /\ failure_context = None
    /\ out = <<>>
    /\ fwd = <<>>
    /\ fr = IdleFrame
    /\ up = IdleUpstream
    /\ raised = <<>>
    /\ tr = IdleTranslator

NextBackoff == AttemptStarts \/ AttemptFails \/ AttemptEnds

SpecBackoff == InitBackoff /\ [][NextBackoff]_vars

(***************************************************************************)
(* SpecMatch: SemanticRouter.match over an index with several examples per *)
(* agent.  Scores are in tenths; similarities[i] is the cosine similarity  *)
(* of the message with the example of row i of the index                   *)
(***************************************************************************)
\* The loop over the similarities from row i on: the best score of every
\* agent, in the order in which the dict got its keys
RECURSIVE agent_best_scores(_, _, _, _)
agent_best_scores(example_to_agent, similarities, i, best) ==
    IF i > Len(similarities) THEN best
    ELSE LET agent_idx == example_to_agent[i]
             at == {k \in 1..Len(best) : best[k].agent_idx = agent_idx}
             entry == [agent_idx |-> agent_idx, score |-> similarities[i],
                       example |-> i]
             next == IF at = {} THEN Append(best, entry)
                     ELSE LET k == CHOOSE k \in at : TRUE
                          IN IF similarities[i] > best[k].score
                             THEN [best EXCEPT ![k] = entry]
                             ELSE best
         IN agent_best_scores(example_to_agent, similarities, i + 1, next)

\* A sort key that leaves the priority out
SortKeyBefore_ScoreOnly(agents, m, n) == m.score > n.score

\* key = (-score, priority): m's key is smaller than n's
SortKeyBefore(agents, m, n) ==
    \/ m.score > n.score
    \/ /\ m.score = n.score
       /\ agents[m.agent_idx].routing.priority
              < agents[n.agent_idx].routing.priority

\* list.sort is stable: m goes before the first element whose key is larger
RECURSIVE InsertSorted(_, _, _)
InsertSorted(agents, sorted, m) ==
    IF sorted = <<>> THEN <<m>>
    ELSE IF SortKeyBefore(agents, m, Head(sorted))
         THEN <<m>> \o sorted
         ELSE <<Head(sorted)>> \o InsertSorted(agents, Tail(sorted), m)

\* matches.sort(key=...): the elements from position i on inserted one
\* after the other into the sorted list
RECURSIVE SortMatches(_, _, _, _)
SortMatches(agents, matches, i, sorted) ==
    IF i > Len(matches) THEN sorted
    ELSE SortMatches(agents, matches, i + 1,
                     InsertSorted(agents, sorted, matches[i]))

\* SemanticRouter.match for a message that is not blank
router_match(agents, example_to_agent, similarities) ==
    IF Len(similarities) = 0 THEN <<>>
    ELSE LET best == agent_best_scores(example_to_agent, similarities, 1, <<>>)
             matches == SelectSeq(best, LAMBDA b :
                            /\ agents[b.agent_idx].routing # NoRouting
                            /\ b.score >= agents[b.agent_idx].routing.threshold)
         IN SortMatches(agents, matches, 1, <<>>)

\* The agents of the index explored: two of the same threshold and
\* different priorities, the one of the lower priority first, and one of
\* the first priority with a lower threshold
IndexAgent(id, priority, threshold) ==
    [id |-> id,
     routing |-> [priority |-> priority, threshold |-> threshold,
                  examples |-> TRUE]]

IndexAgents ==
    <<IndexAgent("troubleshooting", 2, 8), IndexAgent("metrics", 1, 8),
      IndexAgent("general", 1, 5)>>

\* build_index: the rows of the index for the numbers of examples of the
\* agents, agent after agent
RECURSIVE ExampleRows(_, _)
ExampleRows(counts, agent_idx) ==
    IF agent_idx > Len(counts) THEN <<>>
    ELSE [i \in 1..counts[agent_idx] |-> agent_idx]
             \o ExampleRows(counts, agent_idx + 1)

Scores == {4, 8, 9}

\* match(message) runs
Match ==
    /\ matching.state = "called"
    /\ matching' = [matching EXCEPT
           !.state = "returned",
           !.matches = router_match(matching.agents, matching.example_to_agent,
                                    matching.similarities)]
    /\ UNCHANGED <<agents_config, chatVars, routeVars, translatorVars,
                   reloadVars, watchVars, stripVars, backoffVars, bufferVars>>

InitMatch ==
    /\ \E counts \in [1..Len(IndexAgents) -> 0..MaxExamples] :
           LET rows == ExampleRows(counts, 1)
           IN \E similarities \in [1..Len(rows) -> Scores] :
                  matching = [state |-> "called", agents |-> IndexAgents,
                              example_to_agent |-> rows,
                              similarities |-> similarities,
                              matches |-> <<>>]
    /\ copying = NoCopy
    /\ retrying = NoRetry
    /\ stream_buffer = NoStreamBuffer
    /\ agents_config = CatalogA
    /\ ReloadIdle
    /\ WatchIdle
    /\ session_store = NoStore
    /\ now = 0
    /\ pending = NoRequest
    /\ routed = NoRoute
    /\ max_attempts = 1
    /\ agent = None
    /\ pc = "idle"
    /\ primary_failed = FALSE
    /\ failure_context = None
    /\ out = <<>>
    /\ fwd = <<>>
    /\ fr = IdleFrame
    /\ up = IdleUpstream
    /\ raised = <<>>
    /\ tr = IdleTranslator

NextMatch == Match

SpecMatch == InitMatch /\ [][NextMatch]_vars

(***************************************************************************)
(* SpecEndpoint: chat from the parsed request to the start of the stream:  *)
(* the user message is extracted, the request is routed, the mentions are  *)
(* stripped and event_generator makes its first forward                    *)
(***************************************************************************)
\* A check that lets a request without a user message through
NoUserMessage_OnlyEmpty(extracted) == extracted.found /\ extracted.text = <<>>

\* if not user_message
NoUserMessage(extracted) == ~extracted.found \/ extracted.text = <<>>

\* user_message = _extract_user_message(chat_request); without one chat
\* raises HTTPException(400)
ChatExtract ==
    /\ copying.state = "parsed"
    /\ LET extracted == extract_user_message(copying.heap, copying.request)
       IN copying' = IF NoUserMessage(extracted)
                     THEN [copying EXCEPT !.state = "raised", !.status = 400]
                     ELSE [copying EXCEPT !.state = "extracted",
                                          !.user_message = extracted.text]
    /\ UNCHANGED <<agents_config, chatVars, routeVars, translatorVars,
                   reloadVars, watchVars, backoffVars, matchVars, bufferVars>>

\* agent, routing_info = await _route_with_sessions(...); an exception of
\* the router leaves chat
ChatRoute ==
    /\ copying.state = "extracted"
    /\ \E sim \in {Sim(0, 0, 0), Sim(9, 0, 0)} :
          LET r == route_with_sessions(agents_config, session_store,
                       [thread_id |-> "t1", text |-> copying.user_message,
                        sim |-> sim, llm |-> None], now)
          IN /\ session_store' = r.store
             /\ agent' = IF r.raised THEN agent ELSE r.agent.id
             /\ copying' = IF r.raised
                           THEN [copying EXCEPT !.state = "raised",
                                                !.status = 500]
                           ELSE [copying EXCEPT !.state = "routed"]
    /\ UNCHANGED <<agents_config, max_attempts, pc, primary_failed,
                   failure_context, out, fwd, fr, up, raised, now, pending,
                   routed, translatorVars, reloadVars, watchVars, backoffVars,
                   matchVars, bufferVars>>

\* The response is returned and event_generator starts: the primary agent
\* is forwarded the stripped request
StreamStarts ==
    /\ copying.state = "stripped"
    /\ copying' = [copying EXCEPT !.state = "streaming"]
    /\ pc' = "primary"
    /\ fwd' = <<agent>>
    /\ fr' = NewFrame(get_agent_by_id(agents_config, agent))
    /\ UNCHANGED <<agents_config, max_attempts, agent, primary_failed,
                   failure_context, out, up, raised, routeVars, translatorVars,
                   reloadVars, watchVars, backoffVars, matchVars, bufferVars>>

InitEndpoint ==
    /\ agents_config = CatalogA
    /\ session_store \in
           {NoStore, EmptyStore(agents_config.session.timeout_minutes),
            store_set(EmptyStore(agents_config.session.timeout_minutes), "t1",
                      Metrics.id, Metrics.handles[1], 0)}
    /\ \E shapes \in ChatRequests :
           LET parsed == NewChatRequest(shapes)
           IN copying = [NoCopy EXCEPT !.state = "parsed",
                                       !.heap = parsed.heap,
                                       !.before = parsed.heap,
                                       !.request = parsed.id,
                                       !.store = session_store]
    /\ retrying = NoRetry
    /\ matching = NoMatching
    /\ stream_buffer = NoStreamBuffer
    /\ ReloadIdle
    /\ WatchIdle
    /\ now = 0
    /\ pending = NoRequest
    /\ routed = NoRoute
    /\ max_attempts = 1
    /\ agent = None
    /\ pc = "idle"
    /\ primary_failed = FALSE
    /\ failure_context = None
    /\ out = <<>>
    /\ fwd = <<>>
    /\ fr = IdleFrame
    /\ up = IdleUpstream
    /\ raised = <<>>
    /\ tr = IdleTranslator

NextEndpoint == ChatExtract \/ ChatRoute \/ StripMentions \/ StreamStarts

SpecEndpoint == InitEndpoint /\ [][NextEndpoint]_vars

(***************************************************************************)
(* SpecBuffer: StreamBuffer.process_stream around a source of SSE events.  *)
(* An event is [type, delta]; the BufferedMessage is held in the fields    *)
(* has_message, frames, accumulated_content and complete                   *)
(***************************************************************************)
\* StreamFrame(event_type, data, timestamp, sequence_num)
StreamFrame(event, sequence_num) ==
    [event_type |-> event.type, delta |-> event.delta,
     sequence_num |-> sequence_num]

\* _handle_message_start: a new BufferedMessage with the frame
handle_message_start(b, frame) ==
    [b EXCEPT !.has_message = TRUE, !.frames = <<frame>>,
              !.accumulated_content = <<>>, !.complete = FALSE,
              !.content_size = 0]

\* _handle_message_content: content without a start creates the message;
\* the delta is accumulated up to max_content_size
handle_message_content(b, frame) ==
    LET m == IF b.has_message THEN b
             ELSE [b EXCEPT !.has_message = TRUE, !.frames = <<frame>>,
                            !.accumulated_content = <<>>, !.complete = FALSE]
        remaining == m.max_content_size - m.content_size
        truncated_delta == SubSeq(frame.delta, 1,
                               IF Len(frame.delta) < remaining
                               THEN Len(frame.delta) ELSE remaining)
    IN IF frame.delta # <<>> /\ m.content_size < m.max_content_size
       THEN [m EXCEPT !.frames = Append(@, frame),
                      !.accumulated_content = @ \o truncated_delta,
                      !.content_size = @ + Len(truncated_delta)]
       ELSE [m EXCEPT !.frames = Append(@, frame)]

\* _handle_message_end and _handle_error: the message, if any, is complete
handle_message_end(b, frame) ==
    IF b.has_message
    THEN [b EXCEPT !.frames = Append(@, frame), !.complete = TRUE]
    ELSE b

\* _process_event
process_event(b, event) ==
    LET frame == StreamFrame(event, b.sequence_num)
        counted == [b EXCEPT !.sequence_num = @ + 1]
    IN IF event.type = "TEXT_MESSAGE_START"
       THEN handle_message_start(counted, frame)
       ELSE IF event.type = "TEXT_MESSAGE_CONTENT"
       THEN handle_message_content(counted, frame)
       ELSE IF event.type \in {"TEXT_MESSAGE_END", "RUN_ERROR"}
       THEN handle_message_end(counted, frame)
       ELSE counted

\* A buffer that holds back what it has no room for
PassThrough_WhileRoom(b, event) ==
    IF event.type = "TEXT_MESSAGE_CONTENT"
       /\ b.content_size >= b.max_content_size
    THEN <<>>
    ELSE <<event>>

\* yield event
PassThrough(b, event) == <<event>>

\* async for event in event_stream: self._process_event(event); yield event
ProcessStream ==
    /\ stream_buffer.state = "open"
    /\ stream_buffer.read < Len(stream_buffer.source)
    /\ LET event == stream_buffer.source[stream_buffer.read + 1]
           b == process_event(stream_buffer, event)
       IN stream_buffer' =
              [b EXCEPT !.read = @ + 1,
                        !.yielded = @ \o PassThrough(stream_buffer, event)]
    /\ UNCHANGED <<agents_config, chatVars, routeVars, translatorVars,
                   reloadVars, watchVars, stripVars, backoffVars, matchVars>>

\* The source is exhausted: process_stream ends
StreamEnds ==
    /\ stream_buffer.state = "open"
    /\ stream_buffer.read = Len(stream_buffer.source)
    /\ stream_buffer' = [stream_buffer EXCEPT !.state = "closed"]
    /\ UNCHANGED <<agents_config, chatVars, routeVars, translatorVars,
                   reloadVars, watchVars, stripVars, backoffVars, matchVars>>

\* The events a source may yield
SourceEvents ==
    {TEvent(type, <<>>) :
        type \in {"RUN_STARTED", "TEXT_MESSAGE_START", "TEXT_MESSAGE_END",
                  "RUN_FINISHED", "RUN_ERROR"}}
    \cup {TEvent("TEXT_MESSAGE_CONTENT", <<"a">>),
          TEvent("TEXT_MESSAGE_CONTENT", <<"a", "a">>)}

InitBuffer ==
    /\ \E n \in 0..MaxBuffered :
          \E source \in [1..n -> SourceEvents],
             max_content_size \in 1..MaxContentSize :
               stream_buffer = [NoStreamBuffer EXCEPT
                                    !.state = "open", !.source = source,
                                    !.max_content_size = max_content_size]
    /\ copying = NoCopy
    /\ retrying = NoRetry
    /\ matching = NoMatching
    /\ agents_config = CatalogA
    /\ ReloadIdle
    /\ WatchIdle
    /\ session_store = NoStore
    /\ now = 0
    /\ pending = NoRequest
    /\ routed = NoRoute
    /\ max_attempts = 1
    /\ agent = None
    /\ pc = "idle"
    /\ primary_failed = FALSE
    /\ failure_context = None
    /\ out = <<>>
    /\ fwd = <<>>
    /\ fr = IdleFrame
    /\ up = IdleUpstream
    /\ raised = <<>>
    /\ tr = IdleTranslator

NextBuffer == ProcessStream \/ StreamEnds

SpecBuffer == InitBuffer /\ [][NextBuffer]_vars

(***************************************************************************)
(* SpecSessions: the requests of one thread are routed one after the other *)
(* while time passes and successful reloads replace the active catalog.    *)
(* The session store is the one lifespan created at startup                *)
(***************************************************************************)
\* A catalog with sticky sessions turned off and the agent metrics removed
CatalogC ==
    [session |-> [sticky_enabled |-> FALSE, timeout_minutes |-> 1,
                  topic_drift_threshold |-> 5],
     default_agent |-> "general",
     agents |-> <<General("a2a", NoRouting), Troubleshooting>>]

\* A catalog with sticky sessions on, a longer timeout and the agent metrics
\* removed
CatalogD ==
    [session |-> [sticky_enabled |-> TRUE, timeout_minutes |-> 2,
                  topic_drift_threshold |-> 5],
     default_agent |-> "general",
     agents |-> <<Troubleshooting,
                  General("ag-ui", [priority |-> 2, threshold |-> 5,
                                    examples |-> TRUE])>>]

\* What the config file may hold when a reload succeeds
ReloadedCatalogs == {CatalogA, CatalogB, CatalogC, CatalogD}

SessionRequests ==
    [thread_id : {"t1"}, text : {PlainText, MentionText},
     sim : {Sim(9, 0, 0), Sim(5, 9, 9), Sim(0, 0, 0)}, llm : {None}]

\* A POST to the chat endpoint arrives
ReceiveInThread ==
    /\ pending = NoRequest
    /\ routed = NoRoute
    /\ pending' \in SessionRequests
    /\ UNCHANGED <<agents_config, session_store, now, routed, chatVars,
                   translatorVars, reloadVars, watchVars, stripVars,
                   backoffVars, matchVars, bufferVars>>

\* _perform_reload succeeds between two requests: the index is rebuilt for
\* the new catalog, app.state.agents_config is replaced and the reload is
\* counted; app.state.session_store is not touched
ReloadCatalog ==
    /\ pending = NoRequest
    /\ reloader.reload_count < MaxReloads
    /\ \E new_config \in ReloadedCatalogs \ {agents_config} :
          /\ config_file' = new_config
          /\ semantic_router' = build_index(semantic_router, new_config)
          /\ agents_config' = new_config
    /\ reloader' = Reloaded(reloader)
    /\ UNCHANGED <<reloading, reader, chatVars, routeVars, translatorVars,
                   watchVars, stripVars, backoffVars, matchVars, bufferVars>>

InitSessions ==
    /\ agents_config \in {CatalogA, CatalogB}
    /\ \E enabled \in BOOLEAN :
         session_store = IF enabled
                         THEN EmptyStore(agents_config.session.timeout_minutes)
                         ELSE NoStore
    /\ now = 0
    /\ pending = NoRequest
    /\ routed = NoRoute
    /\ max_attempts = 1
    /\ agent = None
    /\ pc = "idle"
    /\ primary_failed = FALSE
    /\ failure_context = None
    /\ out = <<>>
    /\ fwd = <<>>
    /\ fr = IdleFrame
    /\ up = IdleUpstream
    /\ raised = <<>>
    /\ tr = IdleTranslator
    /\ ReloadIdle
    /\ WatchIdle
    /\ copying = NoCopy
    /\ retrying = NoRetry
    /\ matching = NoMatching
    /\ stream_buffer = NoStreamBuffer

NextSessions ==
    \/ ReceiveInThread
    \/ RouteRequest
    \/ Respond
    \/ Tick
    \/ ReloadCatalog

SpecSessions == InitSessions /\ [][NextSessions]_vars

(***************************************************************************)
(* Routing cascade                                                          *)
(***************************************************************************)
Order == <<"mention", "sticky", "semantic", "llm_fallback", "default">>

\* The session of the routed thread as the call found it
SessionBefore == routed.before.sessions[routed.request.thread_id]

\* The agent a method would choose for the routed request, NoAgent when the
\* method does not qualify
Candidate(method) ==
    CASE method = "mention" ->
           get_agent_by_handle(agents_config, parse_mention(routed.request.text))
      [] method = "sticky" ->
           IF /\ routed.before.enabled
              /\ SessionBefore # NoSession
              /\ routed.clock <= SessionBefore.last_activity
                                     + routed.before.timeout_minutes
              /\ ~IsBlank(routed.request.text)
           THEN LET a == get_agent_by_id(agents_config, SessionBefore.agent_id)
                IN IF /\ a # NoAgent
                      /\ HasExamples(a)
                      /\ routed.request.sim[a.id] >=
                             agents_config.session.topic_drift_threshold
                   THEN a ELSE NoAgent
           ELSE NoAgent
      [] method = "semantic" -> match_best(agents_config, routed.request)
      [] method = "llm_fallback" ->
           IF routed.request.llm \in AgentIds
           THEN get_agent_by_id(agents_config, routed.request.llm)
           ELSE NoAgent
      [] method = "default" -> get_default_agent(agents_config)

Qualifies(method) == Candidate(method) # NoAgent

\* C1: the method a completed routing call reports is the earliest
\* qualifying one in the order mention, sticky, semantic, llm_fallback,
\* default, and the agent is the one that method selects; a mention that
\* resolves to no agent leaves the outcome what it is for the same request
\* without the mention.
C1_RoutingCascade ==
    (routed # NoRoute /\ ~routed.raised) =>
        /\ \E k \in DOMAIN Order :
              /\ routed.method = Order[k]
              /\ Qualifies(Order[k])
              /\ routed.agent = Candidate(Order[k]).id
              /\ \A j \in 1..(k - 1) : ~Qualifies(Order[j])
        /\ (parse_mention(routed.request.text) # <<>> /\ ~Qualifies("mention")) =>
              LET plain == route_with_sessions(agents_config, routed.before,
                               [routed.request EXCEPT !.text = PlainText],
                               routed.clock)
              IN /\ routed.method = plain.method
                 /\ routed.agent = plain.agent.id

\* A mention won although the thread had a live session with another agent
\* that had not drifted, and a third agent matched semantically
C1_Witness ==
    /\ routed # NoRoute
    /\ routed.method = "mention"
    /\ Qualifies("sticky")
    /\ Qualifies("semantic")
    /\ Candidate("sticky").id # routed.agent
    /\ Candidate("semantic").id # routed.agent

\* The call got as far as the LLM classifier: the message is not blank and
\* neither a mention, nor a live undrifted session, nor the semantic match
\* gave an agent
ReachedClassifier ==
    /\ routed # NoRoute
    /\ ~IsBlank(routed.request.text)
    /\ ~Qualifies("mention")
    /\ ~Qualifies("sticky")
    /\ ~Qualifies("semantic")

\* C23: when semantic matching finds no agent and the LLM classifier fails
\* with LLMFallbackError, the routing call raises nothing and returns the
\* default agent with method default.
C23_LLMErrorFallsToDefault ==
    (ReachedClassifier /\ routed.request.llm = "error") =>
        /\ ~routed.raised
        /\ routed.method = "default"
        /\ routed.agent = get_default_agent(agents_config).id

\* The classifier failed for a thread whose session had drifted, and the
\* default agent was chosen
C23_Witness ==
    /\ ReachedClassifier
    /\ routed.request.llm = "error"
    /\ routed.topic_drift
    /\ routed.method = "default"

\* The session of the routed thread as the call left it
SessionAfter == session_store.sessions[routed.request.thread_id]

\* C14: after a routing call has selected agent A for thread T with sticky
\* sessions enabled, by whatever method, the store holds a session for T
\* with A's id and A's primary handle, written by this call.
C14_SessionWritten ==
    (/\ routed # NoRoute
     /\ ~routed.raised
     /\ session_store.enabled
     /\ agents_config.session.sticky_enabled)
    => /\ SessionAfter # NoSession
       /\ SessionAfter.agent_id = routed.agent
       /\ SessionAfter.agent_handle =
              get_agent_by_id(agents_config, routed.agent).handles[1]
       /\ SessionAfter.created_at = routed.clock
       /\ SessionAfter.last_activity = routed.clock

\* A mention by a secondary handle has replaced the live session the thread
\* had with another agent
C14_Witness ==
    /\ routed # NoRoute
    /\ routed.method = "mention"
    /\ routed.request.text = SharedText
    /\ SessionBefore # NoSession
    /\ SessionBefore.agent_id # routed.agent
    /\ routed.clock <= SessionBefore.last_activity
                           + routed.before.timeout_minutes
    /\ SessionAfter.agent_id = routed.agent

\* The routed request had no resolvable mention and its thread had a live
\* session whose agent is in the catalog
StickyCase ==
    /\ routed # NoRoute
    /\ ~Qualifies("mention")
    /\ routed.before.enabled
    /\ SessionBefore # NoSession
    /\ routed.clock <= SessionBefore.last_activity
                           + routed.before.timeout_minutes
    /\ get_agent_by_id(agents_config, SessionBefore.agent_id) # NoAgent

\* The message has drifted from the session's agent: its best similarity to
\* the agent's examples is below the catalog's drift threshold, or cannot be
\* computed
Drifted ==
    LET a == get_agent_by_id(agents_config, SessionBefore.agent_id)
    IN \/ IsBlank(routed.request.text)
       \/ (IF HasExamples(a) THEN routed.request.sim[a.id] ELSE 0)
              < agents_config.session.topic_drift_threshold

C16_SessionTTL ==
    session_store.enabled =>
        \A t \in Threads :
            LET session == session_store.sessions[t]
                got == store_get(session_store, t, now)
            IN /\ got.session = NoSession <=>
                    \/ session = NoSession
                    \/ now - session.last_activity > session_store.timeout_minutes
               /\ got.session # NoSession =>
                    (got.session = session /\ got.store = session_store)
               /\ got.store.sessions[t] = got.session

\* A request arrived exactly timeout minutes after the session was last used
\* and the session was still found
C16_Witness ==
    /\ StickyCase
    /\ routed.method = "sticky"
    /\ routed.clock = SessionBefore.last_activity
                          + routed.before.timeout_minutes
    /\ \E t \in Threads :
         /\ session_store.sessions[t] # NoSession
         /\ now = session_store.sessions[t].last_activity
                      + session_store.timeout_minutes
         /\ store_get(session_store, t, now).session # NoSession

(***************************************************************************)
(* Properties of the streaming pipeline (checked under SpecChat)           *)
(***************************************************************************)
CountType(events, type) ==
    Cardinality({i \in DOMAIN events : events[i].type = type})

Types(events) == [i \in DOMAIN events |-> events[i].type]

\* The events the running (or just ended) forward_request call has yielded:
\* the tail of the stream, as long as the pipeline has added nothing after it
CallEvents == SubSeq(out, Len(out) - fr.yielded + 1, Len(out))

\* forward_request has just ended by raising AgentProxyError
GaveUp == fr.state = "raised" /\ pc \in {"failed", "fallback_failed"}

\* forward_request has just ended by returning
Returned == fr.state = "returned" /\ pc = "done"

PrimaryAgent == get_agent_by_id(agents_config, agent)

\* C2: one forward_request call makes at most max_attempts upstream
\* attempts, and the AgentProxyError it raises on giving up carries the
\* number of attempts the call actually made.
C2_RetryBounds ==
    /\ fr.calls <= max_attempts
    /\ GaveUp => /\ raised # <<>>
                 /\ raised[Len(raised)].agent_id = fr.agent.id
                 /\ raised[Len(raised)].attempts = fr.calls

C2_Witness == GaveUp /\ fr.calls = max_attempts /\ max_attempts >= 2

\* C3: once an event of an attempt has been yielded downstream, no further
\* upstream attempt is made for the request: whenever an attempt is in
\* progress, every event the call has yielded so far is an event of that
\* attempt.
C3_RetryOnlyBeforeStreaming ==
    fr.state = "streaming" => fr.yielded = up.yielded

\* C4: when forward_request gives up it yields exactly one RUN_ERROR of its
\* own, that event is the last one it yields, and it then raises
\* AgentProxyError.
C4_GiveUpSurface ==
    /\ GaveUp =>
         /\ fr.yielded >= 1
         /\ CountType(CallEvents, "RUN_ERROR") = 1
         /\ CallEvents[Len(CallEvents)] = Ev("RUN_ERROR", "proxy", fr.agent.id)
         /\ raised # <<>> /\ raised[Len(raised)].agent_id = fr.agent.id
    /\ (InCall /\ LoopOver(fr)) => CountType(CallEvents, "RUN_ERROR") = 0

C4_Witness ==
    /\ GaveUp
    /\ fr.last_error = Http400
    /\ fr.calls = 1
    /\ max_attempts >= 2

\* C5: for an agent of either protocol, a call whose upstream attempt failed
\* with a retryable error ends only after max_attempts attempts, and then by
\* raising AgentProxyError.
C5_RetryEitherProtocol ==
    (/\ fr.state \in {"returned", "raised"}
     /\ up.failed # NoError
     /\ is_retryable_error(up.failed))
    => (fr.state = "raised" /\ fr.calls = max_attempts)

\* C6: when a primary agent that is not the default fails with
\* AgentProxyError without having streamed, the client-visible stream is the
\* three notice events followed by the default agent's stream, the failed
\* primary attempt contributes no event, and the default agent is forwarded
\* to exactly once.
PrimaryStreamed ==
    \E i \in DOMAIN out : out[i].of = agent /\ out[i].src # "proxy"

C6_FallbackStream ==
    (/\ pc = "done"
     /\ ~is_default_agent(agents_config, PrimaryAgent)
     /\ failure_context = "proxy"
     /\ ~PrimaryStreamed
     /\ fr.state = "returned")
    => /\ Len(out) >= 3
       /\ SubSeq(out, 1, 3) = FallbackContext
       /\ \A i \in DOMAIN out : out[i].of # agent
       /\ fwd = <<agent, agents_config.default_agent>>

\* C7: when the agent whose forward fails with AgentProxyError is the
\* default agent, the client receives a single RUN_ERROR event and no further
\* forward is attempted.
C7_DefaultFails ==
    (/\ pc = "done"
     /\ is_default_agent(agents_config, PrimaryAgent)
     /\ failure_context = "proxy")
    => /\ CountType(out, "RUN_ERROR") = 1
       /\ fwd = <<agent>>

\* C8: when the primary agent fails and the fallback forward to the default
\* agent fails too, the client-visible stream contains a single RUN_ERROR
\* event, and no further forward is attempted.
C8_FallbackExhausted ==
    (/\ pc = "done"
     /\ failure_context = "proxy"
     /\ Len(fwd) >= 2
     /\ fr.state = "raised")
    => /\ CountType(out, "RUN_ERROR") = 1
       /\ Len(fwd) = 2

\* C9: an upstream failure after at least one event of the attempt has been
\* delivered becomes a RUN_ERROR within the current stream and triggers
\* neither a retry nor a fallback to the default agent.
MidStreamFailure == up.failed # NoError /\ up.yielded > 0

C9_MidStreamFailure ==
    /\ (MidStreamFailure /\ fr.state \in {"loop", "break"}) => LoopOver(fr)
    /\ (MidStreamFailure /\ pc = "failed")
         => is_default_agent(agents_config, PrimaryAgent)
    /\ (MidStreamFailure /\ pc \in {"failed", "done"})
         => CountType(out, "RUN_ERROR") = 1

\* C10: if the attempts before the last fail with retryable errors before
\* yielding anything and the last attempt succeeds, the events of the call
\* are exactly the events of the successful attempt: one RUN_STARTED, the
\* reply's text events, one RUN_FINISHED and no RUN_ERROR.
C10_RetryThenSuccess ==
    (/\ Returned
     /\ up.failed = NoError
     /\ fr.yielded = up.yielded)
    => /\ CountType(CallEvents, "RUN_STARTED") = 1
       /\ CallEvents[1].type = "RUN_STARTED"
       /\ CallEvents[1].displayName = fr.agent.name
       /\ CountType(CallEvents, "RUN_FINISHED") = 1
       /\ CallEvents[Len(CallEvents)].type = "RUN_FINISHED"
       /\ CountType(CallEvents, "RUN_ERROR") = 0
       /\ fr.agent.protocol = "ag-ui"
            => Types(CallEvents) = Types(Reply(fr.agent))

C10_Witness ==
    /\ Returned
    /\ fr.agent.protocol = "ag-ui"
    /\ fr.attempts = 3
    /\ fr.last_error = Http503
    /\ fr.yielded = up.yielded
    /\ CountType(out, "RUN_STARTED") = 1

\* An HTTP status that is a 4xx other than 429
IsClientError(error) ==
    /\ 400 <= error.status_code /\ error.status_code < 500
    /\ error.status_code # 429

\* C11: an error whose HTTP status is a 4xx other than 429 is not retryable,
\* so the attempt that met it is the last upstream attempt of the call: the
\* loop is left and no further attempt starts.
C11_ClientErrorNotRetried ==
    IsClientError(fr.last_error) =>
        /\ ~is_retryable_error(fr.last_error)
        /\ fr.state \in {"break", "raised"}

(***************************************************************************)
(* Properties of the A2A translator (checked under SpecTranslate)          *)
(***************************************************************************)
\* How many of the first n events have the type
CountIn(events, n, type) ==
    Cardinality({i \in 1..n : events[i].type = type})

\* Messages started and not ended among the first n events
Unmatched(events, n) ==
    CountIn(events, n, "TEXT_MESSAGE_START") - CountIn(events, n, "TEXT_MESSAGE_END")

Terminal == {"RUN_FINISHED", "RUN_ERROR"}

\* C12: every stream of the translator begins with RUN_STARTED, never has
\* more than one unmatched TEXT_MESSAGE_START, keeps the order START,
\* CONTENT*, END, RUN_FINISHED, and ends with exactly one terminal event,
\* RUN_FINISHED or RUN_ERROR.
C12_TranslatorStream ==
    LET e == tr.events
    IN /\ tr.state # "idle" => (e # <<>> /\ e[1].type = "RUN_STARTED")
       /\ \A i \in DOMAIN e :
            /\ e[i].type = "RUN_STARTED" => i = 1
            /\ Unmatched(e, i) \in {0, 1}
            /\ e[i].type = "TEXT_MESSAGE_START" => Unmatched(e, i - 1) = 0
            /\ e[i].type = "TEXT_MESSAGE_CONTENT" => Unmatched(e, i - 1) = 1
            /\ e[i].type = "TEXT_MESSAGE_END" =>
                 /\ Unmatched(e, i - 1) = 1
                 /\ i < Len(e)
                 /\ e[i + 1].type = "RUN_FINISHED"
            /\ e[i].type = "RUN_FINISHED" => Unmatched(e, i - 1) = 0
            /\ e[i].type \in Terminal => (i = Len(e) /\ tr.state = "closed")
       /\ tr.state = "closed" => e[Len(e)].type \in Terminal

\* A stream of two content events has ended normally
C12_Witness ==
    /\ tr.state = "closed"
    /\ CountIn(tr.events, Len(tr.events), "TEXT_MESSAGE_CONTENT") = 2
    /\ tr.events[Len(tr.events)].type = "RUN_FINISHED"

\* The deltas of the content events, in order
RECURSIVE Contents(_)
Contents(events) ==
    IF events = <<>> THEN <<>>
    ELSE (IF Head(events).type = "TEXT_MESSAGE_CONTENT"
          THEN <<Head(events).delta>> ELSE <<>>) \o Contents(Tail(events))

\* The concatenation of the texts of the first n frames
RECURSIVE Concat(_, _)
Concat(frames, n) ==
    IF n = 0 THEN <<>> ELSE Concat(frames, n - 1) \o frames[n].text

\* Status updates with text, then a final Task whose text is their
\* concatenation
DeltaRun(frames) ==
    /\ Len(frames) >= 2
    /\ \A i \in 1..(Len(frames) - 1) :
         frames[i].kind = "status" /\ frames[i].text # <<>>
    /\ frames[Len(frames)].kind = "task"
    /\ frames[Len(frames)].text = Concat(frames, Len(frames) - 1)

Deltas(frames) == [i \in 1..(Len(frames) - 1) |-> frames[i].text]

NoDeltaExtendsPrefix(frames) ==
    \A k \in 2..(Len(frames) - 1) :
        ~StartsWith(frames[k].text, Concat(frames, k - 1))

FailedReload(th) ==
    /\ reloading[th].pc = "returned"
    /\ ~reloading[th].result
    /\ reloading[th].at \in {"load", "router", "build"}

\* C17: a reload that fails at any step (loading, validation, index rebuild)
\* leaves the catalog and the semantic index exactly as they were when the
\* reload began.
C17_FailedReloadKeepsState ==
    \A th \in ReloadThreads :
        FailedReload(th) => reloading[th].after = reloading[th].before

\* The index build_index makes of a config: agents, mapping and embeddings
IndexOf(config) ==
    LET router == build_index(LoadedRouter, config)
    IN <<router.agents, router.example_to_agent, router.embeddings>>

\* The index a request's match() has worked with
Observed == <<reader.agents, reader.example_to_agent, reader.embeddings>>

\* C18: a request that matches while the index is rebuilt sees the complete
\* index of one config (agents, example-to-agent mapping and embeddings all
\* from the old config or all from the new one), never a mixture.
C18_IndexRebuiltAtomically ==
    reader.pc = "matched" => \E config \in Catalogs : Observed = IndexOf(config)

\* C19: no request works with a catalog and an index of different config
\* versions: when the index a request matched against is the complete index
\* of some config, that config is the catalog the request took from
\* app.state.
C19_CatalogAndIndexTogether ==
    reader.pc = "matched" =>
        \A config \in Catalogs :
            Observed = IndexOf(config) => reader.agents_config = config

\* The thread is inside _perform_reload, holding the lock
Active(th) == reloading[th].pc \notin {"idle", "returned"}

\* The thread enters _on_config_change in this step while another thread is
\* reloading
TriggeredDuringReload(th) ==
    /\ reloading[th].pc = "idle"
    /\ reloading'[th].pc # "idle"
    /\ \E other \in ReloadThreads \ {th} : Active(other)

\* C20: at most one reload is active at a time, and a reload triggered (by
\* the watcher or by the admin endpoint) while another is in progress
\* returns False at once and changes neither the catalog, nor the index, nor
\* reload_count.
C20_OneReloadAtATime ==
    /\ [](Cardinality({th \in ReloadThreads : Active(th)}) <= 1)
    /\ [][\A th \in ReloadThreads :
            TriggeredDuringReload(th) =>
                /\ reloading'[th].pc = "returned"
                /\ reloading'[th].at = "lock"
                /\ ~reloading'[th].result
                /\ agents_config' = agents_config
                /\ semantic_router' = semantic_router
                /\ reloader' = reloader]_vars

\* A call has been turned away at the lock while the other thread's reload
\* has already changed the index and goes on
C20_Witness ==
    \E th \in ReloadThreads :
        /\ reloading[th].pc = "returned"
        /\ reloading[th].at = "lock"
        /\ \E other \in ReloadThreads \ {th} :
              /\ Active(other)
              /\ semantic_router # reloading[other].before.semantic_router

\* The thread's call of _on_config_change returns in this step
ReturnsNow(th) == reloading[th].pc # "returned" /\ reloading'[th].pc = "returned"

\* C21: reload_count never decreases; a reload that succeeds (returns True)
\* raises it by exactly one, and a step in which no reload succeeds (a failed
\* reload, a skipped one, anything else) leaves it unchanged.
C21_ReloadCountMonotonic ==
    [][LET succeeds == \E th \in ReloadThreads :
                           ReturnsNow(th) /\ reloading'[th].result
       IN /\ reloader'.reload_count >= reloader.reload_count
          /\ succeeds => reloader'.reload_count = reloader.reload_count + 1
          /\ ~succeeds => reloader'.reload_count = reloader.reload_count]_vars

\* A reload has failed after an earlier one succeeded
C21_Witness ==
    /\ reloader.reload_count = 1
    /\ \E th \in ReloadThreads : FailedReload(th)
    /\ \E th \in ReloadThreads :
          reloading[th].pc = "returned" /\ reloading[th].at = "lock"

(***************************************************************************)
(* Config watcher                                                          *)
(***************************************************************************)
\* The number of entries i of the log with P(log[i])
CountHandled(log, P(_)) == Cardinality({i \in 1..Len(log) : P(log[i])})

\* The timer threads that have not run yet
WaitingTimers == {i \in 1..Len(timers) : timers[i].state = "waiting"}

\* The entries after the last callback of the log: the events handled in
\* the debounce window that callback opened
RECURSIVE SinceLastCall(_)
SinceLastCall(log) ==
    IF log = <<>> \/ log[Len(log)].did = "call" THEN <<>>
    ELSE Append(SinceLastCall(SubSeq(log, 1, Len(log) - 1)), log[Len(log)])

C30_EventsDuringReloadDropped ==
    Active("watcher") => handled[Len(handled)].during # "watcher"

(***************************************************************************)
(* Mention stripping (checked under SpecStrip)                             *)
(***************************************************************************)
\* The text a message object carries, with the texts of its items in order
ContentOf(heap, id) ==
    [role |-> heap[id].role, kind |-> heap[id].kind, text |-> heap[id].text,
     items |-> [i \in 1..Len(heap[id].refs) |->
                   [kind |-> heap[heap[id].refs[i]].kind,
                    text |-> heap[heap[id].refs[i]].text]]]

\* What stripping makes of the content of a user message
StrippedContent(c) ==
    [c EXCEPT !.text = strip_mentions(c.text),
              !.items = [i \in 1..Len(c.items) |->
                            IF c.items[i].kind = "text"
                            THEN [c.items[i] EXCEPT
                                      !.text = strip_mentions(c.items[i].text)]
                            ELSE c.items[i]]]

\* C24: the forwarded request has the messages of the parsed one in the same
\* number and order; a message whose role is not user is the same object
\* with the same content, a user message has its content stripped of
\* mentions, and no object of the parsed request has been changed
C24_StripOnlyUserMessages ==
    copying.state = "stripped" =>
        LET original == copying.before[copying.request].refs
            forwarded == copying.heap[copying.forwarded].refs
        IN /\ Len(forwarded) = Len(original)
           /\ \A i \in 1..Len(original) :
                  IF copying.before[original[i]].role # "user"
                  THEN /\ forwarded[i] = original[i]
                       /\ ContentOf(copying.heap, forwarded[i])
                              = ContentOf(copying.before, original[i])
                  ELSE ContentOf(copying.heap, forwarded[i])
                           = StrippedContent(ContentOf(copying.before,
                                                       original[i]))
           /\ \A id \in 1..Len(copying.before) :
                  copying.heap[id] = copying.before[id]

\* A request with a mention in an assistant message and a mention in a user
\* message has been stripped
C24_Witness ==
    /\ copying.state = "stripped"
    /\ LET original == copying.before[copying.request].refs
           forwarded == copying.heap[copying.forwarded].refs
       IN /\ \E i \in 1..Len(original) :
                 /\ copying.before[original[i]].role = "assistant"
                 /\ strip_mentions(copying.before[original[i]].text)
                        # copying.before[original[i]].text
          /\ \E i \in 1..Len(original) :
                 /\ copying.before[original[i]].role = "user"
                 /\ ContentOf(copying.heap, forwarded[i])
                        # ContentOf(copying.before, original[i])

(***************************************************************************)
(* Retry backoff (checked under SpecBackoff)                               *)
(***************************************************************************)
\* base * 2^(k-1) by repeated doubling
RECURSIVE Doubled(_, _)
Doubled(base, k) == IF k <= 1 THEN base ELSE 2 * Doubled(base, k - 1)

\* The delay the backoff rule gives before attempt k
BackoffDelay(config, k) ==
    IF k = 0 THEN 0
    ELSE IF Doubled(config.base_delay_ms, k) < config.max_delay_ms
         THEN Doubled(config.base_delay_ms, k)
         ELSE config.max_delay_ms

\* The time the loop has waited before attempt k
Waited(k) ==
    IF \E i \in 1..Len(retrying.slept) : retrying.slept[i].attempt = k
    THEN (CHOOSE e \in {retrying.slept[i] : i \in 1..Len(retrying.slept)} :
              e.attempt = k).ms
    ELSE 0

\* The attempts the loop has started
Started ==
    {k \in 0..MaxRetryAttempts :
        \/ k < retrying.attempt
        \/ k = retrying.attempt /\ retrying.state = "forwarding"}

\* C25: get_delay_ms(k) is 0 for k = 0 and min(base_delay_ms * 2^(k-1),
\* max_delay_ms) otherwise; the loop has waited exactly that long before
\* every attempt it has started, it sleeps at most once per attempt, and
\* the waits never decrease from one retry to the next and never exceed
\* max_delay_ms
C25_BackoffDelays ==
    /\ \A k \in 0..MaxRetryAttempts :
           get_delay_ms(retrying.config, k) = BackoffDelay(retrying.config, k)
    /\ \A k \in Started : Waited(k) = BackoffDelay(retrying.config, k)
    /\ \A i, j \in 1..Len(retrying.slept) :
           retrying.slept[i].attempt = retrying.slept[j].attempt => i = j
    /\ \A k \in Started :
           /\ Waited(k) <= retrying.config.max_delay_ms
           /\ k >= 2 => Waited(k - 1) <= Waited(k)

\* A loop has retried three times: its second wait was the double of the
\* first and its third wait was capped at max_delay_ms
C25_Witness ==
    /\ Started = 0..3
    /\ Waited(1) > 0
    /\ Waited(2) = 2 * Waited(1)
    /\ Waited(3) = retrying.config.max_delay_ms
    /\ Waited(3) < 4 * Waited(1)

(***************************************************************************)
(* Session store operations (checked under SpecRoute)                      *)
(***************************************************************************)
\* The entry of thread t is past its timeout at the current time
Expired(t) ==
    /\ session_store.sessions[t] # NoSession
    /\ now > session_store.sessions[t].last_activity
                + session_store.timeout_minutes

\* The entry of thread t is within its timeout at the current time
Live(t) == session_store.sessions[t] # NoSession /\ ~Expired(t)

\* C26: on the store as the router has left it, touch(t) returns false for a
\* missing or expired session and leaves no entry for t, returns true for a
\* live one and sets its last_activity to now; get(t) returns nothing for an
\* expired session and deletes its entry; neither changes the entry of any
\* other thread
C26_TouchAndGet ==
    session_store.enabled =>
        \A t \in Threads :
            LET touched == store_touch(session_store, t, now)
                got == store_get(session_store, t, now)
            IN /\ ~Live(t) => /\ ~touched.ok
                              /\ touched.store.sessions[t] = NoSession
               /\ Live(t) => /\ touched.ok
                             /\ touched.store.sessions[t] =
                                    [session_store.sessions[t] EXCEPT
                                         !.last_activity = now]
               /\ Expired(t) => /\ got.session = NoSession
                                /\ got.store.sessions[t] = NoSession
               /\ \A u \in Threads \ {t} :
                      /\ touched.store.sessions[u] = session_store.sessions[u]
                      /\ got.store.sessions[u] = session_store.sessions[u]

\* The router has just routed a request of a thread whose session had
\* expired, which the store's get deleted, while the other thread has a live
\* session and a third state of the store holds an expired one
C26_Witness ==
    /\ session_store.enabled
    /\ routed # NoRoute
    /\ routed.before.sessions[routed.request.thread_id] # NoSession
    /\ routed.clock > routed.before.sessions[routed.request.thread_id].last_activity
                          + routed.before.timeout_minutes
    /\ \E t, u \in Threads : Expired(t) /\ Live(u)

(***************************************************************************)
(* Semantic match (checked under SpecMatch)                                *)
(***************************************************************************)
\* The rows of the index that belong to the agent at position a
RowsOf(a) ==
    {i \in 1..Len(matching.example_to_agent) :
        matching.example_to_agent[i] = a}

HasUserMessage ==
    \E i \in 1..Len(copying.before[copying.request].refs) :
        copying.before[copying.before[copying.request].refs[i]].role = "user"

\* C28: once chat has looked at a request without a user message it has
\* raised an HTTP error, and from then on no SSE event has been emitted, no
\* agent has been chosen or forwarded to, no forwarding request has been
\* built and the session store is as the request found it
C28_NoUserMessageRejected ==
    (copying.state # "parsed" /\ ~HasUserMessage) =>
        /\ copying.state = "raised"
        /\ copying.status = 400
        /\ out = <<>>
        /\ agent = None
        /\ fwd = <<>>
        /\ fr = IdleFrame
        /\ up = IdleUpstream
        /\ copying.forwarded = 0
        /\ session_store = copying.store

\* A request with an assistant message and no user message has been
\* rejected while the store holds a session of its thread
C28_Witness ==
    /\ copying.state = "raised"
    /\ ~HasUserMessage
    /\ \E i \in 1..Len(copying.before[copying.request].refs) :
           copying.before[copying.before[copying.request].refs[i]].role
               = "assistant"
    /\ session_store.enabled
    /\ session_store.sessions["t1"] # NoSession

(***************************************************************************)
(* The translator's delta-vs-cumulative rule (checked under SpecTranslate) *)
(***************************************************************************)
\* The frame carries a text that the translator takes in: any text of a
\* status or artifact update, the text of a Task that is not a duplicate
TakenIn(frame, accumulated_text) ==
    /\ frame.text # <<>>
    /\ \/ frame.kind \in {"status", "artifact"}
       \/ /\ frame.kind = "task"
          /\ ~is_duplicate_content(frame.text, accumulated_text)

\* C29: for every text t taken in, if t starts with the accumulated text
\* the translator emits only the rest of t (nothing when there is no rest)
\* and the accumulated text becomes t; otherwise it emits t and the
\* accumulated text becomes the accumulated text followed by t
C29_DeltaOrCumulative ==
    [][Len(tr.frames') = Len(tr.frames) + 1 =>
         LET t == tr.frames'[Len(tr.frames')].text
             accumulated == tr.accumulated_text
             emitted == Contents(SubSeq(tr.events', Len(tr.events) + 1,
                                        Len(tr.events')))
             suffix == SubSeq(t, Len(accumulated) + 1, Len(t))
         IN TakenIn(tr.frames'[Len(tr.frames')], accumulated) =>
              IF StartsWith(t, accumulated)
              THEN /\ emitted = IF suffix = <<>> THEN <<>> ELSE <<suffix>>
                   /\ tr.accumulated_text' = t
              ELSE /\ emitted = <<t>>
                   /\ tr.accumulated_text' = accumulated \o t]_vars

(***************************************************************************)
(* The stream buffer (checked under SpecBuffer)                            *)
(***************************************************************************)
\* C31: what the stream buffer has yielded is at every moment exactly what
\* it has read of its source, event for event in the same order, so that no
\* event is dropped, duplicated, reordered, changed or held back, whatever
\* the source yields
C31_BufferPassesThrough ==
    /\ stream_buffer.yielded
          = SubSeq(stream_buffer.source, 1, stream_buffer.read)
    /\ stream_buffer.state = "closed"
          => stream_buffer.yielded = stream_buffer.source

\* A stream has passed whose content came without a start and went beyond
\* the size cap
C31_Witness ==
    /\ stream_buffer.state = "closed"
    /\ Len(stream_buffer.source) = 3
    /\ stream_buffer.source[1].type = "TEXT_MESSAGE_CONTENT"
    /\ stream_buffer.source[2].type = "TEXT_MESSAGE_CONTENT"
    /\ stream_buffer.content_size = stream_buffer.max_content_size
    /\ Len(stream_buffer.accumulated_content)
          < Len(stream_buffer.source[1].delta)
              + Len(stream_buffer.source[2].delta)

(***************************************************************************)
(* Terminal events and bounded work of a chat request (checked under       *)
(* SpecChat)                                                               *)
(***************************************************************************)
\* C32: in the client-visible stream no event follows a RUN_FINISHED or a
\* RUN_ERROR, and when the stream has ended it holds exactly one of them,
\* as its last event, whether or not the fallback was used
C32_OneTerminalEvent ==
    /\ \A i \in DOMAIN out : out[i].type \in Terminal => i = Len(out)
    /\ pc = "done" => /\ out # <<>>
                      /\ out[Len(out)].type \in Terminal

(***************************************************************************)
(* The translator's accumulated text (checked under SpecTranslate)         *)
(***************************************************************************)
\* The texts of a sequence one after the other
RECURSIVE Flatten(_)
Flatten(texts) ==
    IF texts = <<>> THEN <<>> ELSE Head(texts) \o Flatten(Tail(texts))

\* C33: after every frame the accumulated text is the concatenation of the
\* deltas of the content events emitted so far, and a TEXT_MESSAGE_START
\* has been emitted exactly when the accumulated text is not empty
C33_AccumulatedIsEmitted ==
    tr.state = "open" =>
        /\ tr.accumulated_text = Flatten(Contents(tr.events))
        /\ (CountIn(tr.events, Len(tr.events), "TEXT_MESSAGE_START") > 0)
              <=> (tr.accumulated_text # <<>>)

(***************************************************************************)
(* Routing errors and the session store (checked under SpecRoute)          *)
(***************************************************************************)
\* C35: when the routing of a request has failed with an error, every
\* session that was live when the request arrived is still in the store as
\* it was, neither deleted nor replaced
C35_RoutingErrorKeepsStore ==
    (routed # NoRoute /\ routed.raised) =>
        \A t \in Threads :
            (/\ routed.before.sessions[t] # NoSession
             /\ ~is_expired(routed.before.sessions[t],
                            routed.before.timeout_minutes, routed.clock))
            => session_store.sessions[t] = routed.before.sessions[t]

(***************************************************************************)
(* Sessions across reloads (checked under SpecSessions)                    *)
(***************************************************************************)
\* The step is a routing call of chat
Routes == pending # NoRequest /\ pending' = NoRequest

\* C34: a request routed while the active catalog has sticky sessions
\* disabled is not routed with the method sticky, and the routing leaves the
\* session store as it found it, also when the store holds sessions written
\* before a reload turned sticky sessions off
C34_StickyDisabled ==
    [][(Routes /\ ~agents_config.session.sticky_enabled) =>
          /\ routed'.method # "sticky"
          /\ session_store' = session_store]_vars

\* C36: once a reload has succeeded, a session is expired by the store (get
\* returns nothing for it) exactly when it has been idle for longer than the
\* timeout_minutes of the catalog that is active now, not the one of the
\* catalog read at startup
C36_ExpiryFollowsReload ==
    (session_store.enabled /\ reloader.reload_count > 0) =>
        \A t \in Threads :
            session_store.sessions[t] # NoSession =>
                ((store_get(session_store, t, now).session = NoSession)
                    <=> is_expired(session_store.sessions[t],
                                   agents_config.session.timeout_minutes, now))

\* The store holds a session of thread t that it takes for live and that
\* names an agent the active catalog does not have
StaleSession(t) ==
    /\ session_store.enabled
    /\ session_store.sessions[t] # NoSession
    /\ ~is_expired(session_store.sessions[t], session_store.timeout_minutes,
                   now)
    /\ get_agent_by_id(agents_config,
                       session_store.sessions[t].agent_id) = NoAgent

\* C37 as stated: a request of a thread whose live session names an agent
\* that a reload has removed is not routed with the method sticky, the agent
\* selected for it is one of the active catalog, and the session of the
\* thread is overwritten with that agent
C37_RemovedAgentOverwritten ==
    [][(Routes /\ StaleSession(pending.thread_id)) =>
          /\ routed'.method # "sticky"
          /\ get_agent_by_id(agents_config, routed'.agent) # NoAgent
          /\ session_store'.sessions[pending.thread_id].agent_id
                 = routed'.agent]_vars

\* C37 amended: such a request, when its routing succeeds, is not routed with
\* the method sticky and gets an agent of the active catalog; the session is
\* overwritten with that agent at the time of the request if the active
\* catalog has sticky sessions enabled, and is left as it was otherwise
C37_RemovedAgentOverwritten_Amended ==
    [][(Routes /\ StaleSession(pending.thread_id) /\ ~routed'.raised) =>
          /\ routed'.method # "sticky"
          /\ get_agent_by_id(agents_config, routed'.agent) # NoAgent
          /\ IF agents_config.session.sticky_enabled
             THEN /\ session_store'.sessions[pending.thread_id].agent_id
                        = routed'.agent
                  /\ session_store'.sessions[pending.thread_id].created_at
                        = now
             ELSE session_store'.sessions[pending.thread_id]
                     = session_store.sessions[pending.thread_id]]_vars

\* A request has been routed whose thread had a live session naming metrics
\* after a reload to a catalog with sticky sessions and without that agent,
\* and the session now names the agent selected for the request
C37_Witness ==
    /\ routed # NoRoute
    /\ ~routed.raised
    /\ reloader.reload_count > 0
    /\ agents_config.session.sticky_enabled
    /\ get_agent_by_id(agents_config, "metrics") = NoAgent
    /\ routed.before.sessions[routed.request.thread_id].agent_id = "metrics"
    /\ ~is_expired(routed.before.sessions[routed.request.thread_id],
                   routed.before.timeout_minutes, routed.clock)
    /\ routed.clock = now
    /\ session_store.sessions[routed.request.thread_id].agent_id
          = routed.agent

(***************************************************************************)
(* The watcher's liveness (checked under SpecWatchFair)                    *)
(***************************************************************************)
\* The file holds a valid catalog that is not the active one
Unread == Validates(config_file) /\ agents_config # config_file

\* The run has reached the bounds of the model: no further reload is
\* counted, or a timer is due after the last tick of the clock
Capped ==
    \/ reloader.reload_count = MaxReloads
    \/ \E i \in 1..Len(timers) :
          timers[i].state = "waiting" /\ timers[i].due > MaxClock

\* C38: every change of the config file is eventually followed by a reload
\* that reads the file as the change left it, so a valid catalog written to
\* the file does not stay unread, whatever timer is pending or reload is
\* running when the event arrives
C38_EveryEventReloaded == Unread ~> (~Unread \/ Capped)

(***************************************************************************)
(* Stopping the watcher (checked under SpecStop)                           *)
(***************************************************************************)
\* C39: once ConfigWatcher.stop() has returned the reload callback is not
\* invoked any more, whatever timer was pending, due or running when stop
\* was called
C39_NoCallbackAfterStop ==
    [][watcher.pc = "stopped" =>
          ~(/\ reloading["watcher"].pc = "idle"
            /\ reloading'["watcher"].pc # "idle")]_vars

(***************************************************************************)
(* Bounded work of a chat request (checked under SpecChatFair)             *)
(***************************************************************************)
\* C40: forward_request is invoked at most twice for a request, first for
\* the routed agent and then at most once for the default agent when the
\* routed agent was another one; a call of forward_request makes its
\* upstream calls one at a time and at most max_attempts of them, so the
\* request makes at most 2 * max_attempts; and the event stream ends
C40_BoundedWork ==
    /\ [](/\ Len(fwd) \in 1..2
          /\ fwd[1] = agent
          /\ Len(fwd) = 2 => /\ fwd[2] = agents_config.default_agent
                             /\ fwd[1] # agents_config.default_agent
          /\ fr.calls <= max_attempts
          /\ \A i \in DOMAIN raised : raised[i].attempts <= max_attempts)
    /\ [][fr'.calls # fr.calls =>
             \/ fr'.calls = fr.calls + 1
             \/ fr'.calls = 0 /\ Len(fwd') = Len(fwd) + 1]_vars
    /\ <>(pc = "done")

\* A request has ended after both the routed agent and the default agent
\* used up every attempt: 2 * max_attempts upstream calls were made
C40_Witness ==
    /\ pc = "done"
    /\ max_attempts >= 2
    /\ Len(fwd) = 2
    /\ Len(raised) = 2
    /\ raised[1].attempts = max_attempts
    /\ raised[2].attempts = max_attempts
    /\ fr.calls = max_attempts

====
